---- MODULE Spec2Model ----
(***************************************************************************)
(* Model of the scheduling DSL validator and compiler of                   *)
(* execution/ortools-api/api.py: validate_spec, select_employees_by_scope, *)
(* the shift arithmetic, and compile_and_solve with its CP-SAT model       *)
(* (decision variables, linear rows, penalty terms), the solver's terminal *)
(* status and the materialised result, and the job layer (POST /jobs,      *)
(* run_job and the table solver_jobs).                                     *)
(*                                                                         *)
(* A JSON object (Python dict) is a record / function whose DOMAIN is its  *)
(* set of keys, so `"k" in d` is  "k" \in DOMAIN d.  A JSON array is a     *)
(* sequence.  A time "HH:MM" is the pair <<HH, MM>>.  Day indices are      *)
(* zero-based as in the source: day index d names days[d + 1].             *)
(***************************************************************************)
EXTENDS Integers, Sequences, FiniteSets, TLC

VARIABLES
    spec,       \* the spec dict handed to compile_and_solve (a mutable dict)
    pc,         \* position of the call of compile_and_solve: "call", "built", "solved",
                \* "returned", "raised"; of the other functions and of a job, the
                \* positions their own actions name
    model,      \* the CpModel under construction: variables' domains, rows, penalty terms
    status,     \* the terminal status of solver.Solve(model)
    sol,        \* solver.Value: the assignment the solver holds
    result,     \* the record returned, or the exception raised
    solver_jobs,\* the rows of the table solver_jobs, by job_id
    http        \* the response of POST /jobs

vars == <<spec, pc, model, status, sol, result, solver_jobs, http>>

----------------------------------------------------------------------------
(* Bounds of the model.                                                    *)

MaxEmployees == 2
MaxDays == 2
MaxWorkShifts == 2
MaxSites == 2
\* at most MaxVars boolean decision variables x[...] and off[...] per model
MaxVars == 6
\* demand cardinalities eq / min / max range over 0..MaxCard
MaxCard == 2
\* decision variables of the specs with a fair_distribution constraint
MaxFairVars == 4

----------------------------------------------------------------------------
(* Dicts and lists.                                                        *)

EmptyDict == [k \in {} |-> 0]

Has(d, k) == k \in DOMAIN d

ToSet(s) == {s[i] : i \in DOMAIN s}

RECURSIVE Concat(_)
Concat(ss) == IF ss = <<>> THEN <<>> ELSE Head(ss) \o Concat(Tail(ss))

\* [f(v) for v in s]; ForEach flattens one level of nested loops
RECURSIVE SumSeq(_)
SumSeq(s) == IF s = <<>> THEN 0 ELSE Head(s) + SumSeq(Tail(s))

Min2(a, b) == IF a <= b THEN a ELSE b

\* the string "ALL" as the value of scope.employees (a list otherwise)
ALL == <<"*ALL*">>

\* ids in ascending lexical order, as Python's sorted() orders them
IdOrder == <<"P1", "P2", "P3", "P9">>

RECURSIVE SortedFrom(_, _)
SortedFrom(S, order) ==
    IF order = <<>> THEN <<>>
    ELSE (IF Head(order) \in S THEN <<Head(order)>> ELSE <<>>) \o SortedFrom(S, Tail(order))

sorted(S) == SortedFrom(S, IdOrder)

----------------------------------------------------------------------------
(* Scope selection.                                                        *)

get_employee(sp, emp_id) ==
    IF Has(sp, "employees") /\ emp_id \in DOMAIN sp.employees
    THEN sp.employees[emp_id] ELSE EmptyDict

get_groups(sp) == IF Has(sp, "groups") THEN sp.groups ELSE EmptyDict

\* normalize_list(d.get(k)): a missing key gives None, hence []
normalize_list(d, k) == IF Has(d, k) THEN d[k] ELSE <<>>

\* set(emp.get(k, [])) of an employee dict
Tags(emp, k) == IF Has(emp, k) THEN emp[k] ELSE {}

\* set(get_employee(spec, e).get(k, []))
TagsOf(sp, e, k) == Tags(get_employee(sp, e), k)

\* the start set: all employees, or the explicit list
ScopeStart(sp, scope) ==
    IF DOMAIN scope = {} \/ ~Has(scope, "employees") THEN ToSet(sp.sets.employees)
    ELSE IF scope.employees = ALL THEN ToSet(sp.sets.employees)
    ELSE ToSet(scope.employees)

\* for g in groups: selected &= set(groups.get(g, []))
RECURSIVE InAllGroups(_, _, _)
InAllGroups(groups, names, selected) ==
    IF names = <<>> THEN selected
    ELSE InAllGroups(groups, Tail(names),
            selected \cap (IF Head(names) \in DOMAIN groups
                           THEN ToSet(groups[Head(names)]) ELSE {}))

\* xxx_any: at least one listed tag; an empty list filters nothing
FilterAny(sp, wanted, key, selected) ==
    IF wanted # {} THEN {e \in selected : wanted \cap TagsOf(sp, e, key) # {}} ELSE selected

\* FilterAll with the meaning of xxx_any: one listed tag is enough
FilterAllAsAny(sp, wanted, key, selected) ==
    IF wanted # {} THEN {e \in selected : wanted \cap TagsOf(sp, e, key) # {}} ELSE selected

\* xxx_all: every listed tag
FilterAll(sp, wanted, key, selected) ==
    IF wanted # {} THEN {e \in selected : wanted \subseteq TagsOf(sp, e, key)} ELSE selected

HomeSite(emp) == IF Has(emp, "site_home") THEN {emp.site_home} ELSE {}

FilterSites(sp, wanted, selected) ==
    IF wanted # {} THEN {e \in selected : HomeSite(get_employee(sp, e)) \cap wanted # {}}
    ELSE selected

ContractType(emp) ==
    IF Has(emp, "contract") /\ Has(emp.contract, "type") THEN {emp.contract.type} ELSE {}

FilterContracts(sp, wanted, selected) ==
    IF wanted # {} THEN {e \in selected : ContractType(get_employee(sp, e)) \cap wanted # {}}
    ELSE selected

select_employees_by_scope(sp, scope) ==
    sorted(
      FilterContracts(sp, ToSet(normalize_list(scope, "contracts_any")),
        FilterSites(sp, ToSet(normalize_list(scope, "sites_any")),
          FilterAll(sp, ToSet(normalize_list(scope, "roles_all")), "roles",
            FilterAny(sp, ToSet(normalize_list(scope, "roles_any")), "roles",
              FilterAll(sp, ToSet(normalize_list(scope, "skills_all")), "skills",
                FilterAny(sp, ToSet(normalize_list(scope, "skills_any")), "skills",
                  InAllGroups(get_groups(sp), normalize_list(scope, "groups"),
                              ScopeStart(sp, scope)))))))))

----------------------------------------------------------------------------
(* Time / shift helpers.                                                   *)

parse_hhmm(hhmm) == hhmm[1] * 60 + hhmm[2]

\* rest_minutes_between without the overnight wrap of a's end
RestWithoutWrap(shift_a, shift_b) ==
    (24 * 60 + parse_hhmm(shift_b.start)) - parse_hhmm(shift_a.end)

rest_minutes_between(shift_a, shift_b) ==
    LET a_end_abs == IF parse_hhmm(shift_a.end) >= parse_hhmm(shift_a.start)
                     THEN parse_hhmm(shift_a.end)
                     ELSE 24 * 60 + parse_hhmm(shift_a.end)
        b_start_abs == 24 * 60 + parse_hhmm(shift_b.start)
    IN  b_start_abs - a_end_abs

----------------------------------------------------------------------------
(* compile_and_solve: the sets, the shift definitions, the variables.      *)

ALLOWED_KINDS ==
    {"exactly_one_assignment_per_day", "forbid_shift_sequences",
     "min_rest_minutes_between_shifts", "max_shifts_in_window",
     "max_work_minutes_in_window", "max_consecutive_work_days",
     "min_consecutive_days_off", "penalize_work_on_days",
     "penalize_work_on_shifts", "penalize_unmet_day_off_requests",
     "fair_distribution"}

NoErr == "none"

\* spec["sets"].get("sites", ["SITE_DEFAULT"])
sites_of(sp) == IF Has(sp.sets, "sites") THEN sp.sets.sites ELSE <<"SITE_DEFAULT">>

DefaultOFF == [start |-> <<0, 0>>, end |-> <<0, 0>>, minutes |-> 0, is_work |-> FALSE]

\* shift_defs["OFF"] = {...} when "OFF" is not a key of the dict
WithDefaultOFF(defs) ==
    IF "OFF" \in DOMAIN defs THEN defs
    ELSE [s \in DOMAIN defs \cup {"OFF"} |-> IF s = "OFF" THEN DefaultOFF ELSE defs[s]]

\* shift_defs is spec["shifts"] itself when the key is there (the same dict
\* object, so the default OFF is written into the caller's spec), and a fresh
\* dict otherwise
shift_defs_of(sp) ==
    WithDefaultOFF(IF Has(sp, "shifts") THEN sp.shifts ELSE EmptyDict)

SpecAfterDefaultOFF(sp) ==
    IF Has(sp, "shifts") THEN [sp EXCEPT !.shifts = WithDefaultOFF(sp.shifts)] ELSE sp

\* day_index_map: {d: i for i, d in enumerate(days)}, the last index wins
day_index_map(days, name) ==
    CHOOSE i \in 0..(Len(days) - 1) :
        days[i + 1] = name /\ \A j \in 0..(Len(days) - 1) : days[j + 1] = name => j <= i

is_work_shift(defs, s) ==
    s # "OFF" /\ (IF s \in DOMAIN defs /\ Has(defs[s], "is_work") THEN defs[s].is_work ELSE TRUE)

\* keys of the dicts x and off
x(e, d, s, site) == <<"x", e, d, s, site>>
off(e, d) == <<"off", e, d>>

\* the local names of compile_and_solve: cx.employees, cx.days, cx.shifts,
\* cx.sites, cx.shift_defs, cx.work_shifts, and cx.keys, the keys of x and off
WithKeys(cx) ==
    cx @@ [keys |->
        {x(e, d, s, site) : e \in ToSet(cx.employees), d \in 0..(Len(cx.days) - 1),
                            s \in ToSet(cx.work_shifts), site \in ToSet(cx.sites)}
        \cup {off(e, d) : e \in ToSet(cx.employees), d \in 0..(Len(cx.days) - 1)}]

WithWorkShifts(cx) ==
    cx @@ [work_shifts |-> SelectSeq(cx.shifts, LAMBDA s : is_work_shift(cx.shift_defs, s))]

CompileContext(sp) ==
    WithKeys(WithWorkShifts(
        [spec |-> sp, employees |-> sp.sets.employees, days |-> sp.sets.days,
         shifts |-> sp.sets.shifts, sites |-> sites_of(sp), shift_defs |-> shift_defs_of(sp)]))

\* linear expressions are lists of <<coefficient, variable>>
works_shift(cx, e, d, s) == [k \in 1..Len(cx.sites) |-> <<1, x(e, d, s, cx.sites[k])>>]

\* sum(works_shift(e, d, s) for s in counted)
SumOver(cx, e, d, counted) ==
    Concat([i \in 1..Len(counted) |-> works_shift(cx, e, d, counted[i])])

works_day(cx, e, d) == SumOver(cx, e, d, cx.work_shifts)

\* int(shift_defs[s].get("minutes", 0))
shift_minutes(cx, s) == IF Has(cx.shift_defs[s], "minutes") THEN cx.shift_defs[s].minutes ELSE 0

\* a row of the model: terms op rhs, enforced only if `enforce` is 1 (<<>>: always)
Row(terms, op, rhs) == [terms |-> terms, op |-> op, rhs |-> rhs, enforce |-> <<>>]

\* a lookup x[...] or off[...] of a key the dicts do not hold raises KeyError
MissingKey(cx, terms) == \E i \in DOMAIN terms : terms[i][2] \notin cx.keys

Raised(err) == [err |-> err, rows |-> <<>>, aux |-> <<>>, penalty |-> <<>>]
Emitted(rows, aux, penalty) == [err |-> NoErr, rows |-> rows, aux |-> aux, penalty |-> penalty]

Checked(cx, rows) ==
    IF \E i \in DOMAIN rows : MissingKey(cx, rows[i].terms) THEN Raised("KeyError")
    ELSE Emitted(rows, <<>>, <<>>)

\* the first error of a list of errors, in list order
FirstErr(errs) ==
    IF \E i \in DOMAIN errs : errs[i] # NoErr
    THEN errs[CHOOSE i \in DOMAIN errs :
                 errs[i] # NoErr /\ \A j \in DOMAIN errs : errs[j] # NoErr => i <= j]
    ELSE NoErr

\* the loop over a list of items: it stops at the first item that raises
AllOf(outs) ==
    IF \E i \in DOMAIN outs : outs[i].err # NoErr
    THEN Raised(FirstErr([i \in DOMAIN outs |-> outs[i].err]))
    ELSE Emitted(Concat([i \in DOMAIN outs |-> outs[i].rows]),
                 Concat([i \in DOMAIN outs |-> outs[i].aux]),
                 Concat([i \in DOMAIN outs |-> outs[i].penalty]))

----------------------------------------------------------------------------
(* Demand (coverage + requirements).                                       *)

\* sum(x[(e, d, s, site)] for e in emps)
Coverage(d, s, site, emps) == [k \in 1..Len(emps) |-> <<1, x(emps[k], d, s, site)>>]

\* DemandCardinality without its upper bound
DemandCardinalityNoMax(req, lhs) ==
    IF Has(req, "eq") THEN <<Row(lhs, ">=", req.eq)>>
    ELSE IF Has(req, "min") THEN <<Row(lhs, ">=", req.min)>> ELSE <<>>

DemandCardinality(req, lhs) ==
    IF Has(req, "eq") THEN <<Row(lhs, "==", req.eq)>>
    ELSE (IF Has(req, "min") THEN <<Row(lhs, ">=", req.min)>> ELSE <<>>)
         \o (IF Has(req, "max") THEN <<Row(lhs, "<=", req.max)>> ELSE <<>>)

\* req.get("requirements", {}) or {}, then r.get(key, []) or []
floors_of(req, key) ==
    IF Has(req, "requirements") /\ Has(req.requirements, key) THEN req.requirements[key] ELSE <<>>

\* skills_min / roles_min: one row per floor over the employees that declare the tag
DemandFloors(cx, floors, d, s, site, tag, attr) ==
    [i \in 1..Len(floors) |->
        Row(Coverage(d, s, site,
                     SelectSeq(cx.employees, LAMBDA e : floors[i][tag] \in TagsOf(cx.spec, e, attr))),
            ">=", floors[i].min)]

DemandRows(cx, req, d, site, lhs) ==
    IF MissingKey(cx, lhs) THEN Raised("KeyError")
    ELSE Emitted(DemandCardinality(req, lhs)
                 \o DemandFloors(cx, floors_of(req, "skills_min"), d, req.shift, site, "skill", "skills")
                 \o DemandFloors(cx, floors_of(req, "roles_min"), d, req.shift, site, "role", "roles"),
                 <<>>, <<>>)

DemandAt(cx, req, d, site) == DemandRows(cx, req, d, site, Coverage(d, req.shift, site, cx.employees))

CompileDemandEntry(cx, req) ==
    IF ~Has(req, "day") \/ req.day \notin ToSet(cx.days) THEN Raised("KeyError")
    ELSE IF ~Has(req, "shift") THEN Raised("KeyError")
    ELSE IF cx.sites = <<>> THEN Raised("IndexError")
    ELSE IF req.shift \notin ToSet(cx.work_shifts) THEN Raised("ValueError")
    ELSE DemandAt(cx, req, day_index_map(cx.days, req.day),
                  IF Has(req, "site") THEN req.site ELSE cx.sites[1])

demand_of(sp) == IF Has(sp, "demand") THEN sp.demand ELSE <<>>

DemandLoop(cx, demand) == AllOf([i \in 1..Len(demand) |-> CompileDemandEntry(cx, demand[i])])

CompileDemand(cx) == DemandLoop(cx, demand_of(cx.spec))

----------------------------------------------------------------------------
(* Constraints + soft penalties: one outcome per entry of constraints[].   *)

constraints_of(sp) == IF Has(sp, "constraints") THEN sp.constraints ELSE <<>>

scope_of(c) == IF Has(c, "scope") THEN c.scope ELSE EmptyDict
data_of(c) == IF Has(c, "data") THEN c.data ELSE EmptyDict
\* int(penalty.get("weight", 0))
weight_of(c) == IF Has(c, "penalty") /\ Has(c.penalty, "weight") THEN c.penalty.weight ELSE 0

\* range(len(days))
DayRange(cx) == [i \in 1..Len(cx.days) |-> i - 1]
\* range(len(days) - 1)
DayPairs(cx) == [i \in 1..(Len(cx.days) - 1) |-> i - 1]

\* for e in emps: for d in ds: ...
PerEmployeeDay(emps, ds, Item(_, _)) ==
    Concat([i \in 1..Len(emps) |-> [j \in 1..Len(ds) |-> Item(emps[i], ds[j])]])

\* exactly_one_assignment_per_day
counted_work(cx, data) ==
    SelectSeq(IF Has(data, "shifts") THEN data.shifts ELSE cx.work_shifts \o <<"OFF">>,
              LAMBDA s : s # "OFF")

\* ExactlyOneRows asking for at least one assignment
ExactlyOneRowsAtLeast(cx, emps, counted) ==
    Checked(cx, PerEmployeeDay(emps, DayRange(cx),
        LAMBDA e, d : Row(<<<<1, off(e, d)>>>> \o SumOver(cx, e, d, counted), ">=", 1)))

ExactlyOneRows(cx, emps, counted) ==
    Checked(cx, PerEmployeeDay(emps, DayRange(cx),
        LAMBDA e, d : Row(<<<<1, off(e, d)>>>> \o SumOver(cx, e, d, counted), "==", 1)))

ExactlyOneAssignmentPerDay(cx, c) ==
    ExactlyOneRows(cx, select_employees_by_scope(cx.spec, scope_of(c)), counted_work(cx, data_of(c)))

\* forbid_shift_sequences
ForbiddenPairErr(cx, e, p) ==
    IF ~Has(p, "prev_shift") \/ ~Has(p, "next_shift") THEN "KeyError"
    ELSE IF p.prev_shift \notin ToSet(cx.work_shifts) \/ p.next_shift \notin ToSet(cx.work_shifts)
    THEN "ValueError"
    ELSE IF cx.sites # <<>> /\ e \notin ToSet(cx.employees) THEN "KeyError"
    ELSE NoErr

\* the first error of the loop over employees, day pairs and forbidden pairs
ForbidErr(cx, emps, pairs) ==
    FirstErr(Concat(PerEmployeeDay(emps, DayPairs(cx),
        LAMBDA e, d : [k \in 1..Len(pairs) |-> ForbiddenPairErr(cx, e, pairs[k])])))

\* ForbidRows pairing a day with itself
ForbidRowsSameDay(cx, emps, pairs) ==
    IF ForbidErr(cx, emps, pairs) # NoErr THEN Raised(ForbidErr(cx, emps, pairs))
    ELSE Emitted(Concat(PerEmployeeDay(emps, DayPairs(cx),
            LAMBDA e, d : [k \in 1..Len(pairs) |->
                Row(works_shift(cx, e, d, pairs[k].prev_shift)
                    \o works_shift(cx, e, d, pairs[k].next_shift), "<=", 1)])),
         <<>>, <<>>)

ForbidRows(cx, emps, pairs) ==
    IF ForbidErr(cx, emps, pairs) # NoErr THEN Raised(ForbidErr(cx, emps, pairs))
    ELSE Emitted(Concat(PerEmployeeDay(emps, DayPairs(cx),
            LAMBDA e, d : [k \in 1..Len(pairs) |->
                Row(works_shift(cx, e, d, pairs[k].prev_shift)
                    \o works_shift(cx, e, d + 1, pairs[k].next_shift), "<=", 1)])),
         <<>>, <<>>)

ForbidShiftSequences(cx, c) ==
    ForbidRows(cx, select_employees_by_scope(cx.spec, scope_of(c)),
               IF Has(data_of(c), "forbidden_pairs") THEN data_of(c).forbidden_pairs ELSE <<>>)

\* min_rest_minutes_between_shifts
HasInterval(cx, s) ==
    s \in DOMAIN cx.shift_defs /\ Has(cx.shift_defs[s], "start") /\ Has(cx.shift_defs[s], "end")

\* ShortRestPairs measuring the rest from the second shift to the first
ShortRestPairsSwapped(cx, min_rest) ==
    Concat(Concat([i \in 1..Len(cx.work_shifts) |-> [j \in 1..Len(cx.work_shifts) |->
        IF rest_minutes_between(cx.shift_defs[cx.work_shifts[j]], cx.shift_defs[cx.work_shifts[i]])
               < min_rest
        THEN <<<<cx.work_shifts[i], cx.work_shifts[j]>>>> ELSE <<>>]]))

\* the ordered pairs (s1, s2) of work shifts with rest < min_rest
ShortRestPairs(cx, min_rest) ==
    Concat(Concat([i \in 1..Len(cx.work_shifts) |-> [j \in 1..Len(cx.work_shifts) |->
        IF rest_minutes_between(cx.shift_defs[cx.work_shifts[i]], cx.shift_defs[cx.work_shifts[j]])
               < min_rest
        THEN <<<<cx.work_shifts[i], cx.work_shifts[j]>>>> ELSE <<>>]]))

MinRestRows(cx, emps, pairs) ==
    Checked(cx, Concat(PerEmployeeDay(emps, DayPairs(cx),
        LAMBDA e, d : [k \in 1..Len(pairs) |->
            Row(works_shift(cx, e, d, pairs[k][1]) \o works_shift(cx, e, d + 1, pairs[k][2]),
                "<=", 1)])))

MinRestWith(cx, c, emps) ==
    IF ~Has(data_of(c), "min_rest_minutes") THEN Raised("KeyError")
    ELSE IF emps # <<>> /\ DayPairs(cx) # <<>>
            /\ \E s \in ToSet(cx.work_shifts) : ~HasInterval(cx, s)
    THEN Raised("KeyError")
    ELSE IF emps = <<>> \/ DayPairs(cx) = <<>> THEN Emitted(<<>>, <<>>, <<>>)
    ELSE MinRestRows(cx, emps, ShortRestPairs(cx, data_of(c).min_rest_minutes))

MinRestMinutesBetweenShifts(cx, c) ==
    MinRestWith(cx, c, select_employees_by_scope(cx.spec, scope_of(c)))

\* penalize_unmet_day_off_requests.  ci is the position of the constraint in
\* constraints[] and k the position of the day in data.days: every NewIntVar
\* call creates a variable of its own, whatever name it is given
unmet(ci, e, k) == <<"unmet", ci, e, k>>

\* UnmetRows with unmet == off: the penalty falls on the granted request
UnmetRowsInverted(cx, c, ci, emps, target_days) ==
    IF target_days # <<>> /\ \E i \in DOMAIN emps : emps[i] \notin ToSet(cx.employees)
    THEN Raised("KeyError")
    ELSE Emitted(
        PerEmployeeDay(emps, [k \in 1..Len(target_days) |-> k],
            LAMBDA e, k : Row(<<<<1, unmet(ci, e, k)>>, <<-1, off(e, target_days[k])>>>>, "==", 0)),
        PerEmployeeDay(emps, [k \in 1..Len(target_days) |-> k],
            LAMBDA e, k : [var |-> unmet(ci, e, k), lo |-> 0, hi |-> 1]),
        PerEmployeeDay(emps, [k \in 1..Len(target_days) |-> k],
            LAMBDA e, k : <<weight_of(c), unmet(ci, e, k)>>))

UnmetRows(cx, c, ci, emps, target_days) ==
    IF target_days # <<>> /\ \E i \in DOMAIN emps : emps[i] \notin ToSet(cx.employees)
    THEN Raised("KeyError")
    ELSE Emitted(
        PerEmployeeDay(emps, [k \in 1..Len(target_days) |-> k],
            LAMBDA e, k : Row(<<<<1, unmet(ci, e, k)>>, <<1, off(e, target_days[k])>>>>, "==", 1)),
        PerEmployeeDay(emps, [k \in 1..Len(target_days) |-> k],
            LAMBDA e, k : [var |-> unmet(ci, e, k), lo |-> 0, hi |-> 1]),
        PerEmployeeDay(emps, [k \in 1..Len(target_days) |-> k],
            LAMBDA e, k : <<weight_of(c), unmet(ci, e, k)>>))

PenalizeUnmetDayOffRequests(cx, c, ci) ==
    IF c.type # "soft" THEN Raised("ValueError")
    ELSE IF ~Has(data_of(c), "days") THEN Raised("ValueError")
    ELSE IF \E k \in DOMAIN data_of(c).days : data_of(c).days[k] \notin ToSet(cx.days)
    THEN Raised("KeyError")
    ELSE UnmetRows(cx, c, ci, select_employees_by_scope(cx.spec, scope_of(c)),
                   [k \in 1..Len(data_of(c).days) |-> day_index_map(cx.days, data_of(c).days[k])])

\* the auxiliary variables of the other kinds, named like unmet
start_off(ci, e, d) == <<"start_off", ci, e, d>>
works(ci, e, k) == <<"works", ci, e, k>>
cnt(ci, e, w) == <<"cnt", ci, e, w>>
dev(ci, e, w) == <<"dev", ci, e, w>>

\* rows, auxiliaries and penalty terms of a loop whose lookups x[...] and
\* off[...] may raise KeyError
CheckedWith(cx, rows, aux, penalty) ==
    IF \E i \in DOMAIN rows : \E t \in DOMAIN rows[i].terms :
          rows[i].terms[t][2][1] \in {"x", "off"} /\ rows[i].terms[t][2] \notin cx.keys
    THEN Raised("KeyError")
    ELSE Emitted(rows, aux, penalty)

\* [s for s in data.get(key, default) if s in work_shifts]
counted_shifts(cx, data, key, default) ==
    SelectSeq(IF Has(data, key) THEN data[key] ELSE default,
              LAMBDA s : s \in ToSet(cx.work_shifts))

\* range(start, min(start + window_days, len(days)))
Window(cx, start, window_days) ==
    [i \in 1..(Min2(start + window_days, Len(cx.days)) - start) |-> start + i - 1]

\* sum(works_shift(e, d, s) for d in window for s in counted)
WindowSum(cx, e, window, counted) ==
    Concat([i \in 1..Len(window) |-> SumOver(cx, e, window[i], counted)])

\* sum(shift_minutes[s] * works_shift(e, d, s) for d in window for s in counted)
WindowMinutes(cx, e, window, counted) ==
    Concat([i \in 1..Len(window) |-> Concat([j \in 1..Len(counted) |->
        [k \in 1..Len(cx.sites) |->
            <<shift_minutes(cx, counted[j]), x(e, window[i], counted[j], cx.sites[k])>>]])])

\* the terms of a sum on the other side of a comparison
Negated(terms) == [i \in 1..Len(terms) |-> <<0 - terms[i][1], terms[i][2]>>]

\* MaxShiftsRows with the bound taken strictly
MaxShiftsRowsStrict(cx, emps, window_days, max_allowed, counted) ==
    Checked(cx, PerEmployeeDay(emps, DayRange(cx),
        LAMBDA e, start :
            Row(WindowSum(cx, e, Window(cx, start, window_days), counted), "<=", max_allowed - 1)))

\* MaxShiftsRows with its windows starting in range(len(days) - 1)
MaxShiftsRowsDayPairs(cx, emps, window_days, max_allowed, counted) ==
    Checked(cx, PerEmployeeDay(emps, DayPairs(cx),
        LAMBDA e, start :
            Row(WindowSum(cx, e, Window(cx, start, window_days), counted), "<=", max_allowed)))

\* lines 743-747
MaxShiftsRows(cx, emps, window_days, max_allowed, counted) ==
    Checked(cx, PerEmployeeDay(emps, DayRange(cx),
        LAMBDA e, start :
            Row(WindowSum(cx, e, Window(cx, start, window_days), counted), "<=", max_allowed)))

\* MaxShiftsInWindow reading the counted shifts from data.counted_shifts
MaxShiftsInWindowCountedKey(cx, c) ==
    IF ~Has(data_of(c), "window_days") \/ ~Has(data_of(c), "max") THEN Raised("KeyError")
    ELSE IF Has(data_of(c), "mode") /\ data_of(c).mode # "rolling" THEN Raised("ValueError")
    ELSE MaxShiftsRows(cx, select_employees_by_scope(cx.spec, scope_of(c)),
                       data_of(c).window_days, data_of(c).max,
                       counted_shifts(cx, data_of(c), "counted_shifts", cx.work_shifts))

\* max_shifts_in_window
MaxShiftsInWindow(cx, c) ==
    IF ~Has(data_of(c), "window_days") \/ ~Has(data_of(c), "max") THEN Raised("KeyError")
    ELSE IF Has(data_of(c), "mode") /\ data_of(c).mode # "rolling" THEN Raised("ValueError")
    ELSE MaxShiftsRows(cx, select_employees_by_scope(cx.spec, scope_of(c)),
                       data_of(c).window_days, data_of(c).max,
                       counted_shifts(cx, data_of(c), "shifts", cx.work_shifts))

\* lines 759-763
MaxMinutesRows(cx, emps, window_days, max_minutes, counted) ==
    Checked(cx, PerEmployeeDay(emps, DayRange(cx),
        LAMBDA e, start :
            Row(WindowMinutes(cx, e, Window(cx, start, window_days), counted), "<=", max_minutes)))

\* max_work_minutes_in_window
MaxWorkMinutesInWindow(cx, c) ==
    IF ~Has(data_of(c), "window_days") \/ ~Has(data_of(c), "max_minutes") THEN Raised("KeyError")
    ELSE IF Has(data_of(c), "mode") /\ data_of(c).mode # "rolling" THEN Raised("ValueError")
    ELSE IF \E s \in ToSet(cx.work_shifts) : s \notin DOMAIN cx.shift_defs THEN Raised("KeyError")
    ELSE MaxMinutesRows(cx, select_employees_by_scope(cx.spec, scope_of(c)),
                        data_of(c).window_days, data_of(c).max_minutes,
                        counted_shifts(cx, data_of(c), "shifts", cx.work_shifts))

\* sum(works_day(e, d) for d in range(start, start + L))
BlockSum(cx, e, start, L) ==
    Concat([j \in 1..L |-> works_day(cx, e, start + j - 1)])

\* MaxConsecutiveRows without the last block of the horizon
MaxConsecutiveRowsNoLastBlock(cx, emps, max_consec) ==
    Checked(cx, PerEmployeeDay(emps, [i \in 1..(Len(cx.days) - (max_consec + 1)) |-> i - 1],
        LAMBDA e, start : Row(BlockSum(cx, e, start, max_consec + 1), "<=", max_consec)))

\* lines 767-772: L = max_consec + 1, one row per block of L days
MaxConsecutiveRows(cx, emps, max_consec) ==
    Checked(cx, PerEmployeeDay(emps, [i \in 1..(Len(cx.days) - (max_consec + 1) + 1) |-> i - 1],
        LAMBDA e, start : Row(BlockSum(cx, e, start, max_consec + 1), "<=", max_consec)))

\* max_consecutive_work_days
MaxConsecutiveWorkDays(cx, c) ==
    IF ~Has(data_of(c), "max") THEN Raised("KeyError")
    ELSE MaxConsecutiveRows(cx, select_employees_by_scope(cx.spec, scope_of(c)), data_of(c).max)

\* StartOffRows with the streak enforced on k - 1 days
StartOffRowsShort(cx, ci, e, d, k) ==
    (IF d = 0
     THEN <<Row(<<<<1, start_off(ci, e, d)>>, <<-1, off(e, d)>>>>, "==", 0)>>
     ELSE <<Row(<<<<1, start_off(ci, e, d)>>, <<-1, off(e, d)>>>>, "<=", 0),
            Row(<<<<1, start_off(ci, e, d)>>, <<1, off(e, d - 1)>>>>, "<=", 1),
            Row(<<<<1, start_off(ci, e, d)>>, <<-1, off(e, d)>>, <<1, off(e, d - 1)>>>>, ">=", 0)>>)
    \o [j \in 1..Len(Window(cx, d, k - 1)) |->
            [Row(<<<<1, off(e, Window(cx, d, k - 1)[j])>>>>, "==", 1)
                EXCEPT !.enforce = start_off(ci, e, d)]]

\* lines 781-795, for one employee and one day: start_off is tied to off, and
\* the next k days are off whenever start_off holds
StartOffRows(cx, ci, e, d, k) ==
    (IF d = 0
     THEN <<Row(<<<<1, start_off(ci, e, d)>>, <<-1, off(e, d)>>>>, "==", 0)>>
     ELSE <<Row(<<<<1, start_off(ci, e, d)>>, <<-1, off(e, d)>>>>, "<=", 0),
            Row(<<<<1, start_off(ci, e, d)>>, <<1, off(e, d - 1)>>>>, "<=", 1),
            Row(<<<<1, start_off(ci, e, d)>>, <<-1, off(e, d)>>, <<1, off(e, d - 1)>>>>, ">=", 0)>>)
    \o [j \in 1..Len(Window(cx, d, k)) |->
            [Row(<<<<1, off(e, Window(cx, d, k)[j])>>>>, "==", 1)
                EXCEPT !.enforce = start_off(ci, e, d)]]

\* min_consecutive_days_off
MinConsecutiveDaysOff(cx, c, ci) ==
    IF ~Has(data_of(c), "min") THEN Raised("KeyError")
    ELSE CheckedWith(cx,
            Concat(PerEmployeeDay(select_employees_by_scope(cx.spec, scope_of(c)), DayRange(cx),
                LAMBDA e, d : StartOffRows(cx, ci, e, d, data_of(c).min))),
            PerEmployeeDay(select_employees_by_scope(cx.spec, scope_of(c)), DayRange(cx),
                LAMBDA e, d : [var |-> start_off(ci, e, d), lo |-> 0, hi |-> 1]),
            <<>>)

\* lines 804-808 and 814-817: works == the sum of the employee's assignments
\* to the shifts on day ds[k], and weight * works as a penalty term
WorksRows(cx, c, ci, emps, ds, shifts) ==
    CheckedWith(cx,
        PerEmployeeDay(emps, [k \in 1..Len(ds) |-> k],
            LAMBDA e, k : Row(<<<<1, works(ci, e, k)>>>> \o Negated(SumOver(cx, e, ds[k], shifts)),
                              "==", 0)),
        PerEmployeeDay(emps, [k \in 1..Len(ds) |-> k],
            LAMBDA e, k : [var |-> works(ci, e, k), lo |-> 0, hi |-> 1]),
        PerEmployeeDay(emps, [k \in 1..Len(ds) |-> k],
            LAMBDA e, k : <<weight_of(c), works(ci, e, k)>>))

\* penalize_work_on_days
PenalizeWorkOnDays(cx, c, ci) ==
    IF c.type # "soft" THEN Raised("ValueError")
    ELSE IF ~Has(data_of(c), "days") THEN Raised("KeyError")
    ELSE IF \E k \in DOMAIN data_of(c).days : data_of(c).days[k] \notin ToSet(cx.days)
    THEN Raised("KeyError")
    ELSE WorksRows(cx, c, ci, select_employees_by_scope(cx.spec, scope_of(c)),
                   [k \in 1..Len(data_of(c).days) |-> day_index_map(cx.days, data_of(c).days[k])],
                   counted_shifts(cx, data_of(c), "working_shifts", cx.work_shifts))

\* penalize_work_on_shifts without the check of line 810
PenalizeWorkOnShiftsUntyped(cx, c, ci) ==
    WorksRows(cx, c, ci, select_employees_by_scope(cx.spec, scope_of(c)), DayRange(cx),
              counted_shifts(cx, data_of(c), "shifts", <<>>))

\* penalize_work_on_shifts
PenalizeWorkOnShifts(cx, c, ci) ==
    IF c.type # "soft" THEN Raised("ValueError")
    ELSE WorksRows(cx, c, ci, select_employees_by_scope(cx.spec, scope_of(c)), DayRange(cx),
                   counted_shifts(cx, data_of(c), "shifts", <<>>))

\* int(round(total / max(1, n))): Python rounds a half to the even neighbour
RoundedMean(total, n) ==
    IF 2 * (total % n) < n THEN total \div n
    ELSE IF 2 * (total % n) > n THEN (total \div n) + 1
    ELSE IF (total \div n) % 2 = 0 THEN total \div n ELSE (total \div n) + 1

\* lines 858-864: the demand for the counted shifts, where it is exact
TotalDemand(demand, counted) ==
    SumSeq([i \in 1..Len(demand) |->
        IF demand[i].shift \notin ToSet(counted) THEN 0
        ELSE IF Has(demand[i], "eq") THEN demand[i].eq
        ELSE IF Has(demand[i], "min") /\ Has(demand[i], "max") /\ demand[i].min = demand[i].max
        THEN demand[i].min ELSE 0])

\* lines 850-854: the whole horizon, or one rolling window per start day
FairWindows(cx, window_days) ==
    IF window_days >= Len(cx.days) THEN <<Window(cx, 0, Len(cx.days))>>
    ELSE [i \in 1..Len(cx.days) |-> Window(cx, i - 1, window_days)]

\* lines 866-880: per window and employee cnt, dev and the
\* penalty weight * dev, for the target tgt
FairRows(cx, c, ci, emps, counted, windows, tgt) ==
    CheckedWith(cx,
        Concat(Concat([w \in 1..Len(windows) |-> [i \in 1..Len(emps) |->
            <<Row(<<<<1, cnt(ci, emps[i], w)>>>>
                    \o Negated(WindowSum(cx, emps[i], windows[w], counted)), "==", 0),
              Row(<<<<1, dev(ci, emps[i], w)>>, <<-1, cnt(ci, emps[i], w)>>>>, ">=", 0 - tgt),
              Row(<<<<1, dev(ci, emps[i], w)>>, <<1, cnt(ci, emps[i], w)>>>>, ">=", tgt)>>]])),
        Concat(Concat([w \in 1..Len(windows) |-> [i \in 1..Len(emps) |->
            <<[var |-> cnt(ci, emps[i], w), lo |-> 0, hi |-> Len(cx.days)],
              [var |-> dev(ci, emps[i], w), lo |-> 0, hi |-> Len(cx.days)]>>]])),
        Concat([w \in 1..Len(windows) |-> [i \in 1..Len(emps) |->
            <<weight_of(c), dev(ci, emps[i], w)>>]]))

\* the target: a number given as data.target, or the rounded mean ("auto_mean")
FairTarget(cx, c, emps, counted) ==
    IF Has(data_of(c), "target") THEN data_of(c).target
    ELSE RoundedMean(TotalDemand(demand_of(cx.spec), counted),
                     IF Len(emps) >= 1 THEN Len(emps) ELSE 1)

\* FairWith taking every employee when the scope selects none
FairWithEveryone(cx, c, ci, emps, counted) ==
    FairRows(cx, c, ci, IF emps = <<>> THEN cx.employees ELSE emps, counted,
             FairWindows(cx, IF Has(data_of(c), "window_days")
                             THEN data_of(c).window_days ELSE Len(cx.days)),
             FairTarget(cx, c, emps, counted))

\* lines 842-880, after the checks of the payload
FairWith(cx, c, ci, emps, counted) ==
    FairRows(cx, c, ci, emps, counted,
             FairWindows(cx, IF Has(data_of(c), "window_days")
                             THEN data_of(c).window_days ELSE Len(cx.days)),
             FairTarget(cx, c, emps, counted))

\* fair_distribution
FairDistribution(cx, c, ci) ==
    IF c.type # "soft" THEN Raised("ValueError")
    ELSE IF (Has(data_of(c), "measure") /\ data_of(c).measure # "count")
            \/ (Has(data_of(c), "penalize") /\ data_of(c).penalize # "absolute_deviation")
    THEN Raised("ValueError")
    ELSE IF counted_shifts(cx, data_of(c), "shifts", <<>>) = <<>> THEN Raised("ValueError")
    ELSE FairWith(cx, c, ci, select_employees_by_scope(cx.spec, scope_of(c)),
                  counted_shifts(cx, data_of(c), "shifts", <<>>))

\* lines 688-883, for one entry of constraints; a kind outside ALLOWED_KINDS
\* never gets here
CompileConstraint(cx, c, ci) ==
    IF ~Has(c, "id") \/ ~Has(c, "type") \/ ~Has(c, "kind") THEN Raised("KeyError")
    ELSE IF c.kind = "exactly_one_assignment_per_day" THEN ExactlyOneAssignmentPerDay(cx, c)
    ELSE IF c.kind = "forbid_shift_sequences" THEN ForbidShiftSequences(cx, c)
    ELSE IF c.kind = "min_rest_minutes_between_shifts" THEN MinRestMinutesBetweenShifts(cx, c)
    ELSE IF c.kind = "max_shifts_in_window" THEN MaxShiftsInWindow(cx, c)
    ELSE IF c.kind = "max_work_minutes_in_window" THEN MaxWorkMinutesInWindow(cx, c)
    ELSE IF c.kind = "max_consecutive_work_days" THEN MaxConsecutiveWorkDays(cx, c)
    ELSE IF c.kind = "min_consecutive_days_off" THEN MinConsecutiveDaysOff(cx, c, ci)
    ELSE IF c.kind = "penalize_work_on_days" THEN PenalizeWorkOnDays(cx, c, ci)
    ELSE IF c.kind = "penalize_work_on_shifts" THEN PenalizeWorkOnShifts(cx, c, ci)
    ELSE IF c.kind = "penalize_unmet_day_off_requests" THEN PenalizeUnmetDayOffRequests(cx, c, ci)
    ELSE IF c.kind = "fair_distribution" THEN FairDistribution(cx, c, ci)
    ELSE Raised("ValueError")

\* the loop of line 687 leaving after its first entry
ConstraintLoopFirstOnly(cx, cs) ==
    AllOf([i \in 1..Min2(1, Len(cs)) |-> CompileConstraint(cx, cs[i], i)])

ConstraintLoop(cx, cs) == AllOf([i \in 1..Len(cs) |-> CompileConstraint(cx, cs[i], i)])

CompileConstraints(cx) == ConstraintLoop(cx, constraints_of(cx.spec))

\* demand first, then the constraints: the first error ends the call
Then(dem, con) ==
    IF dem.err # NoErr THEN dem
    ELSE IF con.err # NoErr THEN con
    ELSE Emitted(dem.rows \o con.rows, con.aux, con.penalty)

CompileModel(cx) == Then(CompileDemand(cx), CompileConstraints(cx))

----------------------------------------------------------------------------
(* The CP-SAT model and the solver.                                        *)

NoModel == [dom |-> EmptyDict, rows |-> <<>>, penalty_terms |-> <<>>]
NoSol == EmptyDict
NoResult == EmptyDict

\* the table solver_jobs without rows, and no response sent yet
NoJobs == EmptyDict
NoResponse == EmptyDict

\* NewBoolVar for every key of x and off, NewIntVar(lo, hi) for the auxiliaries
AuxDomains(aux) ==
    [v \in {aux[i].var : i \in DOMAIN aux} |->
        LET i == CHOOSE j \in DOMAIN aux : aux[j].var = v IN <<aux[i].lo, aux[i].hi>>]

ModelOf(cx, out) ==
    [dom |-> [v \in cx.keys |-> <<0, 1>>] @@ AuxDomains(out.aux),
     rows |-> out.rows,
     penalty_terms |-> out.penalty]

Value(a, terms) == SumSeq([i \in 1..Len(terms) |-> terms[i][1] * a[terms[i][2]]])

RowHolds(r, a) ==
    \/ r.enforce # <<>> /\ a[r.enforce] = 0
    \/ r.op = "==" /\ Value(a, r.terms) = r.rhs
    \/ r.op = "<=" /\ Value(a, r.terms) <= r.rhs
    \/ r.op = ">=" /\ Value(a, r.terms) >= r.rhs

Satisfies(m, a) == \A i \in DOMAIN m.rows : RowHolds(m.rows[i], a)

MaxHi(m) == IF DOMAIN m.dom = {} THEN 0
            ELSE CHOOSE h \in {m.dom[v][2] : v \in DOMAIN m.dom} :
                    \A v \in DOMAIN m.dom : m.dom[v][2] <= h

\* the assignments of the model's variables within their domains that satisfy every row
FeasibleSet(m) ==
    {a \in [DOMAIN m.dom -> 0..MaxHi(m)] :
        /\ \A v \in DOMAIN m.dom : m.dom[v][1] <= a[v] /\ a[v] <= m.dom[v][2]
        /\ Satisfies(m, a)}

\* model.Minimize(sum(penalty_terms) if penalty_terms else 0)
ObjectiveValue(m, a) == Value(a, m.penalty_terms)

----------------------------------------------------------------------------
(* compile_and_solve, step by step.                                        *)

Raise(err) ==
    /\ pc' = "raised"
    /\ result' = [raised |-> err]
    /\ model' = NoModel

\* the model is built, or the first error is raised
Built(cx, out) ==
    IF out.err # NoErr THEN Raise(out.err)
    ELSE /\ model' = ModelOf(cx, out)
         /\ pc' = "built"
         /\ UNCHANGED result

\* lines 587-888: read the sets, default OFF, check the kinds, build the model
Compile ==
    /\ pc = "call"
    /\ UNCHANGED <<status, sol, solver_jobs, http>>
    /\ IF "OFF" \notin ToSet(spec.sets.shifts)
       THEN Raise("ValueError") /\ UNCHANGED spec
       ELSE /\ spec' = SpecAfterDefaultOFF(spec)
            /\ IF \E i \in DOMAIN constraints_of(spec) :
                      ~Has(constraints_of(spec)[i], "kind")
                      \/ constraints_of(spec)[i].kind \notin ALLOWED_KINDS
               THEN Raise("ValueError")
               ELSE Built(CompileContext(spec), CompileModel(CompileContext(spec)))

\* line 894: the solver is a black box that ends in one of its terminal
\* statuses: OPTIMAL with a feasible assignment of least objective, FEASIBLE
\* with any feasible assignment (the time limit ended the search), INFEASIBLE
\* only when no assignment satisfies the rows, UNKNOWN or MODEL_INVALID with
\* no assignment
Solve ==
    /\ pc = "built"
    /\ pc' = "solved"
    /\ UNCHANGED <<spec, model, result, solver_jobs, http>>
    /\ LET F == FeasibleSet(model)
           best == CHOOSE v \in {ObjectiveValue(model, b) : b \in F} :
                       \A b \in F : v <= ObjectiveValue(model, b)
       IN  \/ \E a \in F :
                /\ ObjectiveValue(model, a) = best
                /\ status' = "OPTIMAL" /\ sol' = a
           \/ \E a \in F : status' = "FEASIBLE" /\ sol' = a
           \/ F = {} /\ status' = "INFEASIBLE" /\ sol' = NoSol
           \/ status' \in {"UNKNOWN", "MODEL_INVALID"} /\ sol' = NoSol

\* lines 901-913
ScheduleOf(cx, a) ==
    [day \in ToSet(cx.days) |->
        [k \in ToSet(cx.sites) \cup {"OFF"} |->
            IF k \in ToSet(cx.sites)
            THEN [s \in ToSet(cx.work_shifts) |->
                    SelectSeq(cx.employees,
                              LAMBDA e : a[x(e, day_index_map(cx.days, day), s, k)] = 1)]
            ELSE SelectSeq(cx.employees, LAMBDA e : a[off(e, day_index_map(cx.days, day))] = 1)]]

\* the days on which solver.Value(works_shift(e, d, s)) is not 0
DaysWorked(cx, a, e, s) ==
    SumSeq([j \in 1..Len(cx.days) |-> IF Value(a, works_shift(cx, e, j - 1, s)) # 0 THEN 1 ELSE 0])

\* lines 916-929: an assigned shift adds its minutes once (if val: ...)
MetricsOf(cx, a) ==
    [minutes_worked |->
        [e \in ToSet(cx.employees) |->
            SumSeq([i \in 1..Len(cx.work_shifts) |->
                DaysWorked(cx, a, e, cx.work_shifts[i]) * shift_minutes(cx, cx.work_shifts[i])])],
     shift_counts |->
        [e \in ToSet(cx.employees) |->
            [s \in ToSet(cx.work_shifts) |-> DaysWorked(cx, a, e, s)]]]

Materialize(cx) ==
    IF "OFF" \in ToSet(cx.sites) /\ cx.days # <<>> /\ cx.work_shifts # <<>>
    THEN pc' = "raised" /\ result' = [raised |-> "TypeError"]
    ELSE IF \E s \in ToSet(cx.work_shifts) : s \notin DOMAIN cx.shift_defs
    THEN pc' = "raised" /\ result' = [raised |-> "KeyError"]
    ELSE /\ pc' = "returned"
         /\ result' = [status |-> "ok",
                       objective |-> ObjectiveValue(model, sol),
                       schedule |-> ScheduleOf(cx, sol),
                       metrics |-> MetricsOf(cx, sol)]

\* lines 895-939
Return ==
    /\ pc = "solved"
    /\ UNCHANGED <<spec, model, status, sol, solver_jobs, http>>
    /\ IF status \notin {"OPTIMAL", "FEASIBLE"}
       THEN pc' = "returned" /\ result' = [status |-> "no_solution"]
       ELSE Materialize(CompileContext(spec))

----------------------------------------------------------------------------
(* validate_spec.  A JSON value of another type where an object is         *)
(* expected is written [pytype |-> t], t naming its type; a value that is  *)
(* no list where a list is expected is written NonList; a list element     *)
(* that is itself a list or an object (unhashable in Python) is written    *)
(* Unhashable.                                                             *)

IsDict(v) == ~Has(v, "pytype")
NonList == <<"*not a list*">>
IsList(v) == v # NonList
Unhashable == "*unhashable*"

\* an outcome of a part of the validator: the exception it raises, or the
\* errors and warnings it appends
Report(errors, warnings) == [err |-> NoErr, errors |-> errors, warnings |-> warnings]
Throws(exc) == [err |-> exc, errors |-> <<>>, warnings |-> <<>>]

\* the parts run in order and append to the same two lists; the first
\* exception ends the call
InOrder(outs) ==
    IF \E i \in DOMAIN outs : outs[i].err # NoErr
    THEN Throws(FirstErr([i \in DOMAIN outs |-> outs[i].err]))
    ELSE Report(Concat([i \in DOMAIN outs |-> outs[i].errors]),
                Concat([i \in DOMAIN outs |-> outs[i].warnings]))

When(cond, msg) == IF cond THEN <<msg>> ELSE <<>>

\* lines 155-158
ValidateTopLevel(sp) ==
    Report(<<>>,
           When(~Has(sp, "demand"), "Missing 'demand' (no coverage constraints will be enforced).")
           \o When(~Has(sp, "constraints"),
                   "Missing 'constraints' (only demand constraints will be enforced)."))

\* sets.get(k) after lines 167-175: [] unless it is a non-empty list
set_list(sets, k) == IF Has(sets, k) /\ IsList(sets[k]) THEN sets[k] ELSE <<>>

\* sets.get("sites", ["SITE_DEFAULT"]) after lines 176-178
sites_list(sets) ==
    IF ~Has(sets, "sites") THEN <<"SITE_DEFAULT">>
    ELSE IF IsList(sets.sites) THEN sets.sites ELSE <<>>

\* the locals of validate_spec once the sets are read
ValidateContext(sp) ==
    [spec |-> sp,
     employees |-> set_list(sp.sets, "employees"),
     days |-> set_list(sp.sets, "days"),
     shifts |-> set_list(sp.sets, "shifts"),
     sites |-> sites_list(sp.sets),
     shift_defs |-> IF Has(sp, "shifts") /\ IsDict(sp.shifts) THEN sp.shifts ELSE EmptyDict,
     emp_defs |-> IF Has(sp, "employees") THEN sp.employees ELSE EmptyDict]

\* the values that occur more than once
dupes(lst) == {lst[j] : j \in {i \in DOMAIN lst : \E k \in 1..(i - 1) : lst[k] = lst[i]}}

\* lines 166-208; dupes hashes every element of the list
ValidateSets(vx) ==
    IF Unhashable \in ToSet(vx.employees \o vx.days \o vx.shifts \o vx.sites)
    THEN Throws("TypeError")
    ELSE Report(
        When(vx.employees = <<>>, "sets.employees must be a non-empty list.")
        \o When(vx.days = <<>>, "sets.days must be a non-empty list.")
        \o When(vx.shifts = <<>>, "sets.shifts must be a non-empty list.")
        \o When(vx.sites = <<>>, "sets.sites must be a non-empty list (or omit to default).")
        \o When(dupes(vx.employees) # {}, "Duplicate employee ids in sets.employees")
        \o When(dupes(vx.days) # {}, "Duplicate day values in sets.days")
        \o When(dupes(vx.shifts) # {}, "Duplicate shift ids in sets.shifts")
        \o When(dupes(vx.sites) # {}, "Duplicate site ids in sets.sites")
        \o When(vx.shifts # <<>> /\ "OFF" \notin ToSet(vx.shifts),
                "OFF shift must be present in sets.shifts for this compiler."),
        <<>>)

\* _is_hhmm of the time <<hh, mm>>
is_hhmm(v) == 0 <= v[1] /\ v[1] <= 23 /\ 0 <= v[2] /\ v[2] <= 59

\* lines 231-240, for one entry of shift_defs
ValidateShiftDef(sd) ==
    IF ~IsDict(sd) THEN <<"shifts[s] must be an object.">>
    ELSE When(Has(sd, "start") /\ ~is_hhmm(sd.start), "shifts[s].start must be HH:MM")
         \o When(Has(sd, "end") /\ ~is_hhmm(sd.end), "shifts[s].end must be HH:MM")
         \o When(Has(sd, "minutes") /\ sd.minutes < 0,
                 "shifts[s].minutes must be a non-negative integer")

\* shift_defs.items(): the keys in document order, which every spec of the
\* model writes in this order
ShiftOrder == <<"OFF", "M", "N", "E">>

\* lines 211-240
ValidateShiftDefs(vx) ==
    Report(
        When(Has(vx.spec, "shifts") /\ ~IsDict(vx.spec.shifts),
             "Top-level 'shifts' must be an object/dict.")
        \o Concat([i \in 1..Len(ShiftOrder) |->
                    IF ShiftOrder[i] \in DOMAIN vx.shift_defs
                    THEN ValidateShiftDef(vx.shift_defs[ShiftOrder[i]]) ELSE <<>>]),
        Concat([i \in 1..Len(vx.shifts) |->
                 When(vx.shifts[i] \notin DOMAIN vx.shift_defs,
                      IF vx.shifts[i] = "OFF"
                      THEN "shifts.OFF missing: compiler will assume default OFF=0 minutes."
                      ELSE "Missing shifts[s] definition (start/end/minutes).")]))

\* lines 243-251
ValidateEmployees(vx) ==
    Report(<<>>,
           Concat([i \in 1..Len(vx.employees) |->
                    When(vx.employees[i] \notin DOMAIN vx.emp_defs, "employees[e] missing")]))

\* lines 277-287
ValidateCardinality(req) ==
    IF Has(req, "eq") THEN When(req.eq < 0, "demand[i].eq must be an integer >= 0")
    ELSE When(Has(req, "min") /\ req.min < 0, "demand[i].min must be an integer >= 0")
         \o When(Has(req, "max") /\ req.max < 0, "demand[i].max must be an integer >= 0")
         \o When(Has(req, "min") /\ Has(req, "max") /\ req.min > req.max, "demand[i] has min > max")

\* (emp_defs.get(e, {}) or {}).get(attr, [])
declared(vx, e, attr) == IF e \in DOMAIN vx.emp_defs THEN Tags(vx.emp_defs[e], attr) ELSE {}

\* lines 295-322, for the floors of one requirements key
ValidateFloors(vx, floors, tag, attr) ==
    Report(
        Concat([j \in 1..Len(floors) |->
            IF ~Has(floors[j], tag) \/ ~Has(floors[j], "min")
            THEN <<"demand[i].requirements entry must have its tag and 'min'.">>
            ELSE When(floors[j].min < 0, "demand[i].requirements entry .min must be int >= 0")]),
        Concat([j \in 1..Len(floors) |->
            When(Has(floors[j], tag) /\ Has(floors[j], "min")
                 /\ \A i \in DOMAIN vx.employees :
                        floors[j][tag] \notin declared(vx, vx.employees[i], attr),
                 "demand[i] requires a skill or role but no employee declares it.")]))

\* req.get("site", sites[0] if sites else None), as a set of at most one site
site_of(vx, req) ==
    IF Has(req, "site") THEN {req.site} ELSE IF vx.sites # <<>> THEN {vx.sites[1]} ELSE {}

\* lines 261-322, for one entry of demand
ValidateDemandEntry(vx, req) ==
    IF ~IsDict(req) THEN Report(<<"demand[i] must be an object.">>, <<>>)
    ELSE InOrder(<<
        Report(When(~Has(req, "day") \/ req.day \notin ToSet(vx.days),
                    "demand[i].day not in sets.days")
               \o When(~Has(req, "shift") \/ req.shift \notin ToSet(vx.shifts),
                       "demand[i].shift not in sets.shifts")
               \o When(site_of(vx, req) = {} \/ ~(site_of(vx, req) \subseteq ToSet(vx.sites)),
                       "demand[i].site not in sets.sites")
               \o ValidateCardinality(req), <<>>),
        ValidateFloors(vx, floors_of(req, "skills_min"), "skill", "skills"),
        ValidateFloors(vx, floors_of(req, "roles_min"), "role", "roles")>>)

\* lines 260-322
ValidateDemand(vx) ==
    InOrder([i \in 1..Len(demand_of(vx.spec)) |-> ValidateDemandEntry(vx, demand_of(vx.spec)[i])])

pen_of(c) == IF Has(c, "penalty") THEN c.penalty ELSE EmptyDict

\* lines 342-357
ValidateHeader(c) ==
    Report(
        When(~Has(c, "id"), "constraints[i].id must be a string.")
        \o When(~Has(c, "type") \/ c.type \notin {"hard", "soft"},
                "constraints[i].type must be 'hard' or 'soft'.")
        \o When(~Has(c, "kind") \/ c.kind \notin ALLOWED_KINDS,
                "constraints[i].kind not supported by this compiler.")
        \o When(Has(c, "type") /\ c.type = "soft" /\ Has(pen_of(c), "weight")
                /\ pen_of(c).weight < 0,
                "penalty.weight must be a non-negative number."),
        When(Has(c, "type") /\ c.type = "soft" /\ ~Has(pen_of(c), "weight"),
             "soft constraint has no penalty.weight (will act like weight=0)."))

\* select_employees_by_scope raises (and line 373 catches it) for a scope that
\* is no dict, for sets without employees, and for employees that are no list
\* when the start set is all of them
ScopeRaises(sp, scope) ==
    \/ ~IsDict(scope)
    \/ ~Has(sp.sets, "employees")
    \/ /\ ~IsList(sp.sets.employees)
       /\ (~Has(scope, "employees") \/ scope.employees = ALL)

\* lines 359-374: "employees" in scope raises TypeError for a number and is
\* false for a list or a string that does not hold it
ValidateScope(vx, scope) ==
    IF ~IsDict(scope) /\ scope.pytype = "int" THEN Throws("TypeError")
    ELSE Report(
        When(IsDict(scope) /\ Has(scope, "employees") /\ scope.employees # ALL
             /\ ~(ToSet(scope.employees) \subseteq ToSet(vx.employees)),
             "scope.employees contains unknown ids"),
        IF ScopeRaises(vx.spec, scope) THEN <<"scope could not be evaluated">>
        ELSE When(select_employees_by_scope(vx.spec, scope) = <<>>,
                  "scope selects 0 employees (constraint has no effect)."))

\* lines 377-384
ValidateForbiddenPairs(vx, pairs) ==
    IF pairs = <<>>
    THEN Report(<<"forbid_shift_sequences requires data.forbidden_pairs.">>, <<>>)
    ELSE IF \E k \in DOMAIN pairs : ~IsDict(pairs[k]) THEN Throws("AttributeError")
    ELSE Report(
        Concat([k \in 1..Len(pairs) |->
            When(~Has(pairs[k], "prev_shift") \/ ~Has(pairs[k], "next_shift")
                 \/ pairs[k].prev_shift \notin ToSet(vx.shifts)
                 \/ pairs[k].next_shift \notin ToSet(vx.shifts),
                 "forbidden pair uses shift not in sets.shifts")]),
        <<>>)

\* data.get(k, []) is a non-empty list of known names
ValidateNames(data, k, known, empty_msg, unknown_msg) ==
    IF ~Has(data, k) \/ data[k] = <<>> THEN <<empty_msg>>
    ELSE When(~(ToSet(data[k]) \subseteq known), unknown_msg)

\* lines 376-435: the checks of the payload, kind by kind
ValidateData(vx, kind, data) ==
    IF kind = "forbid_shift_sequences"
    THEN ValidateForbiddenPairs(vx, normalize_list(data, "forbidden_pairs"))
    ELSE Report(
        When(kind \in {"max_shifts_in_window", "max_work_minutes_in_window", "fair_distribution"}
             /\ Has(data, "window_days") /\ data.window_days <= 0,
             "data.window_days must be integer > 0")
        \o When(kind = "max_shifts_in_window" /\ (~Has(data, "max") \/ data.max < 0),
                "max_shifts_in_window requires data.max as int >= 0")
        \o When(kind = "max_work_minutes_in_window"
                /\ (~Has(data, "max_minutes") \/ data.max_minutes < 0),
                "max_work_minutes_in_window requires data.max_minutes as int >= 0")
        \o When(kind = "min_rest_minutes_between_shifts"
                /\ (~Has(data, "min_rest_minutes") \/ data.min_rest_minutes < 0),
                "min_rest_minutes_between_shifts requires data.min_rest_minutes as int >= 0")
        \o When(kind = "max_consecutive_work_days" /\ (~Has(data, "max") \/ data.max < 0),
                "max_consecutive_work_days requires data.max as int >= 0")
        \o When(kind = "min_consecutive_days_off" /\ (~Has(data, "min") \/ data.min <= 0),
                "min_consecutive_days_off requires data.min as int > 0")
        \o (IF kind = "penalize_work_on_days"
            THEN ValidateNames(data, "days", ToSet(vx.days),
                               "penalize_work_on_days requires data.days list.",
                               "penalize_work_on_days has unknown day(s)")
            ELSE <<>>)
        \o (IF kind = "penalize_work_on_shifts"
            THEN ValidateNames(data, "shifts", ToSet(vx.shifts),
                               "penalize_work_on_shifts requires data.shifts list.",
                               "penalize_work_on_shifts has unknown shift(s)")
            ELSE <<>>)
        \o (IF kind = "penalize_unmet_day_off_requests"
            THEN ValidateNames(data, "days", ToSet(vx.days),
                               "penalize_unmet_day_off_requests requires data.days list.",
                               "penalize_unmet_day_off_requests has unknown day(s)")
            ELSE <<>>),
        <<>>)

\* lines 332-435, for one entry of constraints
ValidateConstraint(vx, c) ==
    IF ~IsDict(c) THEN Report(<<"constraints[i] must be an object.">>, <<>>)
    ELSE InOrder(<<ValidateHeader(c),
                   ValidateScope(vx, scope_of(c)),
                   ValidateData(vx, IF Has(c, "kind") THEN c.kind ELSE "None", data_of(c))>>)

\* the ids collected in lines 342-345
constraint_ids(cs) ==
    Concat([i \in 1..Len(cs) |-> IF IsDict(cs[i]) /\ Has(cs[i], "id") THEN <<cs[i].id>> ELSE <<>>])

\* lines 325-441; constraints is a list in every spec of the model
ValidateConstraints(vx, cs) ==
    InOrder([i \in 1..(Len(cs) + 1) |->
        IF i <= Len(cs) THEN ValidateConstraint(vx, cs[i])
        ELSE Report(When(dupes(constraint_ids(cs)) # {}, "Duplicate constraint ids"), <<>>)])

\* lines 444-456
ValidateObjective(sp) ==
    IF ~Has(sp, "objective")
    THEN Report(<<>>, <<"Missing objective (solver will still run but only default objective).">>)
    ELSE IF ~IsDict(sp.objective) THEN Report(<<"objective must be an object.">>, <<>>)
    ELSE Report(
        When(Has(sp.objective, "mode") /\ sp.objective.mode \notin {"minimize", "maximize"},
             "objective.mode must be 'minimize' or 'maximize'")
        \o When(Has(sp.objective, "terms") /\ ~IsList(sp.objective.terms),
                "objective.terms must be an array"),
        <<>>)

\* Returned with warnings blocking ok
ReturnedWarningsBlock(out) ==
    IF out.err # NoErr THEN [raised |-> out.err]
    ELSE [ok |-> Len(out.errors) = 0 /\ Len(out.warnings) = 0,
          errors |-> out.errors, warnings |-> out.warnings]

\* lines 458-462, or the exception that ended the call
Returned(out) ==
    IF out.err # NoErr THEN [raised |-> out.err]
    ELSE [ok |-> Len(out.errors) = 0, errors |-> out.errors, warnings |-> out.warnings]

ValidateBody(sp, vx) ==
    Returned(InOrder(<<ValidateTopLevel(sp), ValidateSets(vx), ValidateShiftDefs(vx),
                       ValidateEmployees(vx), ValidateDemand(vx),
                       ValidateConstraints(vx, constraints_of(sp)), ValidateObjective(sp)>>))

validate_spec(sp) ==
    IF ~Has(sp, "sets") THEN [ok |-> FALSE, errors |-> <<"Missing 'sets'">>, warnings |-> <<>>]
    ELSE IF ~IsDict(sp.sets) THEN [raised |-> "AttributeError"]
    ELSE ValidateBody(sp, ValidateContext(sp))

\* the call ends with the record returned or the exception raised
ValidateEnds(out) ==
    /\ pc' = IF Has(out, "raised") THEN "raised" ELSE "returned"
    /\ result' = out

\* a call of validate_spec
Validate ==
    /\ pc = "call"
    /\ ValidateEnds(validate_spec(spec))
    /\ UNCHANGED <<spec, model, status, sol, solver_jobs, http>>

----------------------------------------------------------------------------
(* The specs compile_and_solve is called with.                             *)

EmployeeIds == <<"P1", "P2", "P3">>
DayIds == <<"D1", "D2", "D3">>
WorkShiftIds == <<"M", "N", "E">>
SiteIds == <<"A", "B", "C">>

Prefix(s, n) == SubSeq(s, 1, Min2(n, Len(s)))
LastOf(s) == s[Len(s)]

\* M 08:00-16:00, N 22:00-06:00 (overnight), E 05:00-13:00
ShiftCatalog(s) ==
    IF s = "M" THEN [start |-> <<8, 0>>, end |-> <<16, 0>>, minutes |-> 480]
    ELSE IF s = "N" THEN [start |-> <<22, 0>>, end |-> <<6, 0>>, minutes |-> 480]
    ELSE IF s = "E" THEN [start |-> <<5, 0>>, end |-> <<13, 0>>, minutes |-> 480]
    ELSE DefaultOFF

\* a long overnight shift 20:00-09:00, and a break that is no work shift
LongNight == [start |-> <<20, 0>>, end |-> <<9, 0>>, minutes |-> 780]
Break == [start |-> <<12, 0>>, end |-> <<13, 0>>, minutes |-> 60, is_work |-> FALSE]

EmployeeCatalog(e) ==
    IF e = "P1" THEN [skills |-> {"certified"}, roles |-> {"team_lead"}]
    ELSE IF e = "P2" THEN [skills |-> {"junior"}]
    ELSE [roles |-> {"team_lead"}]

\* the sets: employees, days, shifts (OFF first), sites (omitted for one site)
SetsChoices ==
    {[employees |-> Prefix(EmployeeIds, q[1]), days |-> Prefix(DayIds, q[2]),
      shifts |-> <<"OFF">> \o Prefix(WorkShiftIds, q[3])]
        @@ (IF q[4] = 1 THEN EmptyDict ELSE [sites |-> Prefix(SiteIds, q[4])]) :
        q \in {r \in (1..MaxEmployees) \X (1..MaxDays) \X (1..MaxWorkShifts) \X (1..MaxSites) :
                r[1] * r[2] * (r[3] * r[4] + 1) <= MaxVars}}

FullDefs(shifts) == [s \in ToSet(shifts) |-> ShiftCatalog(s)]

\* the top-level shifts dicts: every declared shift defined; OFF left out;
\* the last work shift a long night, a non-work break, or left out
ShiftDefChoices(shifts) ==
    {FullDefs(shifts),
     [s \in ToSet(shifts) \ {"OFF"} |-> ShiftCatalog(s)],
     [FullDefs(shifts) EXCEPT ![LastOf(shifts)] = LongNight],
     [FullDefs(shifts) EXCEPT ![LastOf(shifts)] = Break],
     [s \in ToSet(shifts) \ {LastOf(shifts)} |-> ShiftCatalog(s)]}

EmployeesDict(sets) == [e \in ToSet(sets.employees) \ {"P3"} |-> EmployeeCatalog(e)]

BaseSpec(sets, defs) == [sets |-> sets, shifts |-> defs, employees |-> EmployeesDict(sets)]

SitesIn(sets) == IF Has(sets, "sites") THEN sets.sites ELSE <<"SITE_DEFAULT">>

Cardinalities ==
    {[eq |-> k] : k \in 0..MaxCard}
    \cup {[min |-> 1], [max |-> 1], [min |-> 1, max |-> MaxCard], [eq |-> 1, min |-> MaxCard]}

Floors ==
    {[requirements |-> [skills_min |-> <<[skill |-> "certified", min |-> 1]>>]],
     [requirements |-> [roles_min |-> <<[role |-> "team_lead", min |-> 1]>>]]}

DemandEntries(sets) ==
    {[day |-> d, shift |-> s] @@ site @@ card :
        d \in ToSet(sets.days), s \in ToSet(sets.shifts) \ {"OFF"},
        site \in {EmptyDict, [site |-> LastOf(SitesIn(sets))]},
        card \in Cardinalities}
    \cup {[day |-> d, shift |-> s] @@ site @@ card @@ fl :
        d \in ToSet(sets.days), s \in ToSet(sets.shifts) \ {"OFF"},
        site \in {EmptyDict, [site |-> LastOf(SitesIn(sets))]},
        card \in {[eq |-> 1], [max |-> MaxCard]}, fl \in Floors}

Constraint(id, type, kind, scope, data) ==
    [id |-> id, type |-> type, kind |-> kind] @@ scope @@ data

\* no scope key, scope ALL, or the explicit list [P1]
Scopes == {EmptyDict, [scope |-> [employees |-> ALL]], [scope |-> [employees |-> <<"P1">>]]}

ExactlyOneAll == Constraint("one", "hard", "exactly_one_assignment_per_day", EmptyDict, EmptyDict)

ExactlyOneChoices ==
    {Constraint("one", "hard", "exactly_one_assignment_per_day", sc, data) :
        sc \in Scopes,
        data \in {EmptyDict, [data |-> [shifts |-> <<"OFF", "M">>]], [data |-> [shifts |-> <<"M">>]]}}

ForbiddenPairs(sets) ==
    LET w == ToSet(sets.shifts) \ {"OFF"}
    IN  {<<[prev_shift |-> a, next_shift |-> b]>> : a \in w, b \in w}
        \cup {<<[prev_shift |-> "M", next_shift |-> LastOf(sets.shifts)],
                [prev_shift |-> LastOf(sets.shifts), next_shift |-> "M"]>>,
              <<[prev_shift |-> "M", next_shift |-> "OFF"]>>}

ForbidChoices(sets) ==
    {Constraint("seq", "hard", "forbid_shift_sequences", sc, [data |-> [forbidden_pairs |-> fp]]) :
        sc \in Scopes \ {[scope |-> [employees |-> ALL]]}, fp \in ForbiddenPairs(sets)}

RestThresholds == {0, 480, 961, 1801}

MinRestChoices ==
    {Constraint("rest", "hard", "min_rest_minutes_between_shifts", sc,
                [data |-> [min_rest_minutes |-> r]]) :
        sc \in Scopes \ {[scope |-> [employees |-> ALL]]}, r \in RestThresholds}

Weights == {EmptyDict, [penalty |-> [weight |-> 0]], [penalty |-> [weight |-> 10]]}

DayOffRequestChoices(sets) ==
    {Constraint("req", type, "penalize_unmet_day_off_requests", sc, [data |-> [days |-> ds]]) @@ w :
        type \in {"soft"}, sc \in Scopes \ {EmptyDict},
        ds \in {<<"D1">>, <<LastOf(sets.days)>>}, w \in Weights}
    \cup {Constraint("req", "hard", "penalize_unmet_day_off_requests", EmptyDict,
                     [data |-> [days |-> <<"D1">>]])}

\* specs that differ in their shift definitions, one of them without a shifts key
DefsFamily ==
    UNION {{BaseSpec(sets, defs) : defs \in ShiftDefChoices(sets.shifts)}
           \cup {[sets |-> sets, employees |-> EmployeesDict(sets)]} : sets \in SetsChoices}

\* one demand entry, with and without exactly_one_assignment_per_day
DemandFamily ==
    UNION {{BaseSpec(sets, FullDefs(sets.shifts)) @@ [demand |-> <<de>>] @@ cs :
                de \in DemandEntries(sets),
                cs \in {EmptyDict, [constraints |-> <<ExactlyOneAll>>]}} : sets \in SetsChoices}

\* one hard constraint
HardFamily ==
    UNION {{BaseSpec(sets, defs) @@ [constraints |-> <<c>>] :
                defs \in {FullDefs(sets.shifts),
                          [FullDefs(sets.shifts) EXCEPT ![LastOf(sets.shifts)] = LongNight]},
                c \in ExactlyOneChoices \cup ForbidChoices(sets) \cup MinRestChoices} :
           sets \in SetsChoices}

\* day-off requests, with and without coverage of M on D1 and exactly_one_assignment_per_day
SoftFamily ==
    UNION {{BaseSpec(sets, FullDefs(sets.shifts)) @@ dem @@ [constraints |-> pre \o <<c>>] :
                dem \in {EmptyDict, [demand |-> <<[day |-> "D1", shift |-> "M", eq |-> 1]>>]},
                pre \in {<<>>, <<ExactlyOneAll>>},
                c \in DayOffRequestChoices(sets)} : sets \in SetsChoices}

InputSpecs == DefsFamily \cup DemandFamily \cup HardFamily \cup SoftFamily

Init ==
    /\ spec \in InputSpecs
    /\ pc = "call"
    /\ model = NoModel
    /\ status = "none"
    /\ sol = NoSol
    /\ result = NoResult
    /\ solver_jobs = NoJobs
    /\ http = NoResponse

Next == Compile \/ Solve \/ Return

Spec == Init /\ [][Next]_vars

----------------------------------------------------------------------------
(* The specs validate_spec is called with: the specs above, and specs with *)
(* one part missing, of the wrong type or out of range.                    *)

WellFormedSets == [employees |-> <<"P1", "P2">>, days |-> <<"D1", "D2">>,
                   shifts |-> <<"OFF", "M", "N">>]

WellFormedSpec ==
    BaseSpec(WellFormedSets, FullDefs(WellFormedSets.shifts))
    @@ [demand |-> <<[day |-> "D1", shift |-> "M", eq |-> 1]>>,
        constraints |-> <<ExactlyOneAll>>,
        objective |-> [mode |-> "minimize"]]

SetsFaults ==
    {[pytype |-> "list"], [pytype |-> "null"],
     [k \in {"days", "shifts"} |-> WellFormedSets[k]],
     [WellFormedSets EXCEPT !.employees = NonList],
     [WellFormedSets EXCEPT !.employees = <<>>],
     [WellFormedSets EXCEPT !.employees = <<"P1", "P1">>],
     [WellFormedSets EXCEPT !.employees = <<"P1", Unhashable>>],
     [WellFormedSets EXCEPT !.days = <<"D1", "D1">>],
     [WellFormedSets EXCEPT !.days = NonList],
     [WellFormedSets EXCEPT !.shifts = <<"M", "N">>],
     [WellFormedSets EXCEPT !.shifts = <<"OFF", Unhashable>>],
     WellFormedSets @@ [sites |-> <<>>],
     WellFormedSets @@ [sites |-> NonList],
     WellFormedSets @@ [sites |-> <<"A", "A">>],
     WellFormedSets @@ [sites |-> <<"A", "B">>]}

ShiftsFaults ==
    {[pytype |-> "list"],
     [FullDefs(WellFormedSets.shifts) EXCEPT !.M = [pytype |-> "str"]],
     [FullDefs(WellFormedSets.shifts) EXCEPT !.M.start = <<25, 0>>],
     [FullDefs(WellFormedSets.shifts) EXCEPT !.N.end = <<6, 60>>],
     [FullDefs(WellFormedSets.shifts) EXCEPT !.M.minutes = -1],
     [s \in {"M"} |-> ShiftCatalog(s)]}

DemandFaults ==
    {<<>>, <<[pytype |-> "str"]>>,
     <<[shift |-> "M", eq |-> 1]>>,
     <<[day |-> "D9", shift |-> "M", eq |-> 1]>>,
     <<[day |-> "D1", shift |-> "X", eq |-> 1]>>,
     <<[day |-> "D1", shift |-> "M", site |-> "Z", eq |-> 1]>>,
     <<[day |-> "D1", shift |-> "M", eq |-> -1]>>,
     <<[day |-> "D1", shift |-> "M", min |-> 2, max |-> 1]>>,
     <<[day |-> "D1", shift |-> "M", min |-> -1, max |-> -1]>>,
     <<[day |-> "D1", shift |-> "M", eq |-> 1,
        requirements |-> [skills_min |-> <<[skill |-> "pilot", min |-> 1]>>]]>>,
     <<[day |-> "D1", shift |-> "M", eq |-> 1,
        requirements |-> [skills_min |-> <<[skill |-> "certified"]>>]]>>,
     <<[day |-> "D1", shift |-> "M", eq |-> 1,
        requirements |-> [roles_min |-> <<[role |-> "team_lead", min |-> -1]>>]]>>}

ConstraintFaults ==
    {<<>>, <<[pytype |-> "str"]>>,
     <<[type |-> "hard", kind |-> "exactly_one_assignment_per_day"]>>,
     <<[id |-> "one", type |-> "firm", kind |-> "exactly_one_assignment_per_day"]>>,
     <<[id |-> "one", type |-> "hard", kind |-> "at_most_one"]>>,
     <<[id |-> "one", type |-> "hard"]>>,
     <<ExactlyOneAll, ExactlyOneAll>>,
     <<ExactlyOneAll @@ [scope |-> [employees |-> <<"P9">>]]>>,
     <<ExactlyOneAll @@ [scope |-> [groups |-> <<"nights">>]]>>,
     <<ExactlyOneAll @@ [scope |-> [pytype |-> "int"]]>>,
     <<ExactlyOneAll @@ [scope |-> [pytype |-> "list"]]>>,
     <<ExactlyOneAll @@ [scope |-> [pytype |-> "str"]]>>}
    \cup {<<Constraint("seq", "hard", "forbid_shift_sequences", EmptyDict, data)>> :
            data \in {EmptyDict,
                      [data |-> [forbidden_pairs |-> <<>>]],
                      [data |-> [forbidden_pairs |-> <<[pytype |-> "str"]>>]],
                      [data |-> [forbidden_pairs |-> <<[prev_shift |-> "N"]>>]],
                      [data |-> [forbidden_pairs |-> <<[prev_shift |-> "N", next_shift |-> "X"]>>]],
                      [data |-> [forbidden_pairs |-> <<[prev_shift |-> "N", next_shift |-> "OFF"]>>]]}}
    \cup {<<Constraint("rest", "hard", "min_rest_minutes_between_shifts", EmptyDict, data)>> :
            data \in {EmptyDict, [data |-> [min_rest_minutes |-> -1]]}}
    \cup {<<Constraint("req", "soft", "penalize_unmet_day_off_requests", EmptyDict, data) @@ w>> :
            data \in {EmptyDict, [data |-> [days |-> <<>>]], [data |-> [days |-> <<"D9">>]],
                      [data |-> [days |-> <<"D1">>]]},
            w \in {EmptyDict, [penalty |-> [weight |-> -1]], [penalty |-> [weight |-> 10]]}}

ObjectiveFaults ==
    {[pytype |-> "list"], [mode |-> "fastest"], [mode |-> "maximize", terms |-> <<>>],
     [mode |-> "minimize", terms |-> NonList]}

\* one part of the well-formed spec replaced, or left out
FaultFamily ==
    {[WellFormedSpec EXCEPT !.sets = f] : f \in SetsFaults}
    \cup {[WellFormedSpec EXCEPT !.shifts = f] : f \in ShiftsFaults}
    \cup {[WellFormedSpec EXCEPT !.demand = f] : f \in DemandFaults}
    \cup {[WellFormedSpec EXCEPT !.constraints = f] : f \in ConstraintFaults}
    \cup {[WellFormedSpec EXCEPT !.objective = f] : f \in ObjectiveFaults}
    \cup {[k \in DOMAIN WellFormedSpec \ {out} |-> WellFormedSpec[k]] : out \in DOMAIN WellFormedSpec}
    \cup {EmptyDict, WellFormedSpec}

ValidateInputs == InputSpecs \cup FaultFamily

InitValidate ==
    /\ spec \in ValidateInputs
    /\ pc = "call"
    /\ model = NoModel
    /\ status = "none"
    /\ sol = NoSol
    /\ result = NoResult
    /\ solver_jobs = NoJobs
    /\ http = NoResponse

NextValidate == Validate

SpecValidate == InitValidate /\ [][NextValidate]_vars

----------------------------------------------------------------------------
(* The returned result, as the properties below read it.                   *)

\* compile_and_solve returned a record with status ok
Ok == pc = "returned" /\ result.status = "ok"

\* the positions in constraints[] of the constraints of a kind
ConstraintsOfKind(kind) ==
    {i \in DOMAIN constraints_of(spec) : constraints_of(spec)[i].kind = kind}

\* the employees a constraint's scope selects
Scoped(c) == ToSet(select_employees_by_scope(spec, scope_of(c)))

\* e is listed in schedule[day][site][s] for some site
Assigned(e, day, s) ==
    \E site \in DOMAIN result.schedule[day] \ {"OFF"} :
        s \in DOMAIN result.schedule[day][site] /\ e \in ToSet(result.schedule[day][site][s])

\* the work cells <<site, shift>> of a day that list e
WorkCellsOf(e, day) ==
    UNION {{<<site, s>> : s \in {u \in DOMAIN result.schedule[day][site] :
                                    e \in ToSet(result.schedule[day][site][u])}} :
           site \in DOMAIN result.schedule[day] \ {"OFF"}}

\* 1 if schedule[day]["OFF"] lists e
OffCount(e, day) == IF e \in ToSet(result.schedule[day].OFF) THEN 1 ELSE 0

\* the list schedule[day][site][shift] a demand entry is about
DemandCell(req) ==
    result.schedule[req.day][IF Has(req, "site") THEN req.site ELSE sites_of(spec)[1]][req.shift]

----------------------------------------------------------------------------
(* Properties.                                                             *)

\* C1: in every schedule returned with status ok, every employee selected by
\* the scope of an exactly_one_assignment_per_day constraint is, on every day,
\* in at most one of the OFF list and the work cells (all work shifts, all
\* sites), whatever the constraint's data.shifts
C1_AtMostOneAssignmentPerDay ==
    Ok => \A i \in ConstraintsOfKind("exactly_one_assignment_per_day") :
            \A e \in Scoped(constraints_of(spec)[i]) : \A day \in DOMAIN result.schedule :
                OffCount(e, day) + Cardinality(WorkCellsOf(e, day)) <= 1

\* the cardinality bound and the skills_min / roles_min floors of one demand entry
DemandMet(req) ==
    /\ Has(req, "eq") => Len(DemandCell(req)) = req.eq
    /\ ~Has(req, "eq") /\ Has(req, "min") => Len(DemandCell(req)) >= req.min
    /\ ~Has(req, "eq") /\ Has(req, "max") => Len(DemandCell(req)) <= req.max
    /\ \A j \in DOMAIN floors_of(req, "skills_min") :
          Cardinality({e \in ToSet(DemandCell(req)) :
                          floors_of(req, "skills_min")[j].skill \in TagsOf(spec, e, "skills")})
              >= floors_of(req, "skills_min")[j].min
    /\ \A j \in DOMAIN floors_of(req, "roles_min") :
          Cardinality({e \in ToSet(DemandCell(req)) :
                          floors_of(req, "roles_min")[j].role \in TagsOf(spec, e, "roles")})
              >= floors_of(req, "roles_min")[j].min

\* C2: in every schedule returned with status ok, the list of every demand
\* entry's cell has eq employees when eq is given, otherwise at least min and
\* at most max, and at least the min of every skills_min / roles_min entry
\* among those who declare the skill / role
C2_DemandRespected ==
    Ok => \A i \in DOMAIN demand_of(spec) : DemandMet(demand_of(spec)[i])

\* a result with status ok for a demand entry with a floor, met by one employee
C2_Witness ==
    /\ Ok
    /\ \E i \in DOMAIN demand_of(spec) :
          /\ Has(demand_of(spec)[i], "requirements")
          /\ Len(DemandCell(demand_of(spec)[i])) = 1

\* every list of the schedule holds only ids of sets.employees
ListsWithinEmployees ==
    \A day \in DOMAIN result.schedule : \A site \in DOMAIN result.schedule[day] \ {"OFF"} :
        \A s \in DOMAIN result.schedule[day][site] :
            ToSet(result.schedule[day][site][s]) \subseteq ToSet(spec.sets.employees)

\* C3, as claimed: in every result with status ok the lists hold only ids of
\* sets.employees and no employee is in two work cells of the same day, for
\* every spec
C3_WorkCellsDisjoint ==
    Ok => /\ ListsWithinEmployees
          /\ \A day \in DOMAIN result.schedule : \A e \in ToSet(spec.sets.employees) :
                Cardinality(WorkCellsOf(e, day)) <= 1

\* an exactly_one_assignment_per_day constraint that counts every work shift
CountsEveryWorkShift(c) ==
    \/ ~Has(data_of(c), "shifts")
    \/ \A day \in DOMAIN result.schedule : \A site \in DOMAIN result.schedule[day] \ {"OFF"} :
          DOMAIN result.schedule[day][site] \subseteq ToSet(data_of(c).shifts)

\* C3, amended: in every result with status ok the lists hold only ids of
\* sets.employees, and no employee selected by an
\* exactly_one_assignment_per_day constraint that counts every work shift is
\* in two work cells of the same day
C3_WorkCellsDisjointUnderExactlyOne ==
    Ok => /\ ListsWithinEmployees
          /\ \A i \in ConstraintsOfKind("exactly_one_assignment_per_day") :
                CountsEveryWorkShift(constraints_of(spec)[i]) =>
                    \A e \in Scoped(constraints_of(spec)[i]) : \A day \in DOMAIN result.schedule :
                        Cardinality(WorkCellsOf(e, day)) <= 1

\* a result with status ok under such a constraint, with two work cells on a
\* day and an employee in one of them
C3_Witness ==
    /\ Ok
    /\ \E i \in ConstraintsOfKind("exactly_one_assignment_per_day") :
          /\ CountsEveryWorkShift(constraints_of(spec)[i])
          /\ \E e \in Scoped(constraints_of(spec)[i]) : \E day \in DOMAIN result.schedule :
                /\ Cardinality(WorkCellsOf(e, day)) = 1
                /\ Len(CompileContext(spec).work_shifts) * Len(sites_of(spec)) >= 2

\* C4: in every schedule returned with status ok, no employee in the scope of
\* a forbid_shift_sequences constraint is assigned a forbidden pair's
\* prev_shift on a day and its next_shift on the next day
C4_ForbiddenSequencesRespected ==
    Ok => \A i \in ConstraintsOfKind("forbid_shift_sequences") :
            \A e \in Scoped(constraints_of(spec)[i]) :
                \A k \in DOMAIN data_of(constraints_of(spec)[i]).forbidden_pairs :
                    \A d \in 1..(Len(spec.sets.days) - 1) :
                        ~(/\ Assigned(e, spec.sets.days[d],
                                      data_of(constraints_of(spec)[i]).forbidden_pairs[k].prev_shift)
                          /\ Assigned(e, spec.sets.days[d + 1],
                                      data_of(constraints_of(spec)[i]).forbidden_pairs[k].next_shift))

\* a result with status ok where a scoped employee works a pair's prev_shift
\* on the first day and a work shift on the second
C4_Witness ==
    /\ Ok
    /\ Len(spec.sets.days) >= 2
    /\ \E i \in ConstraintsOfKind("forbid_shift_sequences") :
          \E e \in Scoped(constraints_of(spec)[i]) :
              /\ Assigned(e, spec.sets.days[1],
                          data_of(constraints_of(spec)[i]).forbidden_pairs[1].prev_shift)
              /\ WorkCellsOf(e, spec.sets.days[2]) # {}

\* C5: in every schedule returned with status ok, no employee in the scope of
\* a min_rest_minutes_between_shifts constraint with threshold R >= 0 is
\* assigned work shifts s1 and s2 on adjacent days with
\* rest_minutes_between(defs[s1], defs[s2]) < R; a negative rest is below
\* every such R
C5_MinRestRespected ==
    Ok => \A i \in ConstraintsOfKind("min_rest_minutes_between_shifts") :
            data_of(constraints_of(spec)[i]).min_rest_minutes >= 0 =>
                \A e \in Scoped(constraints_of(spec)[i]) :
                    \A d \in 1..(Len(spec.sets.days) - 1) :
                        \A s1, s2 \in ToSet(CompileContext(spec).work_shifts) :
                            (Assigned(e, spec.sets.days[d], s1)
                             /\ Assigned(e, spec.sets.days[d + 1], s2))
                            => rest_minutes_between(shift_defs_of(spec)[s1], shift_defs_of(spec)[s2])
                                   >= data_of(constraints_of(spec)[i]).min_rest_minutes

\* a result with status ok under threshold 0 where some pair of work shifts
\* has a negative rest and a scoped employee works on both days
C5_Witness ==
    /\ Ok
    /\ Len(spec.sets.days) >= 2
    /\ \E i \in ConstraintsOfKind("min_rest_minutes_between_shifts") :
          /\ data_of(constraints_of(spec)[i]).min_rest_minutes = 0
          /\ \E s1, s2 \in ToSet(CompileContext(spec).work_shifts) :
                rest_minutes_between(shift_defs_of(spec)[s1], shift_defs_of(spec)[s2]) < 0
          /\ \E e \in Scoped(constraints_of(spec)[i]) :
                /\ WorkCellsOf(e, spec.sets.days[1]) # {}
                /\ WorkCellsOf(e, spec.sets.days[2]) # {}

\* the returned objective is the least penalty sum of the feasible assignments
ObjectiveIsLeast ==
    \A b \in FeasibleSet(model) : result.objective <= ObjectiveValue(model, b)

\* some feasible assignment has penalty sum 0
ZeroPenaltyFeasible == \E b \in FeasibleSet(model) : ObjectiveValue(model, b) = 0

\* every day-off request of the constraints at the positions in cs is granted
RequestsGranted(cs) ==
    \A i \in cs : \A e \in Scoped(constraints_of(spec)[i]) :
        \A k \in DOMAIN data_of(constraints_of(spec)[i]).days :
            e \in ToSet(result.schedule[data_of(constraints_of(spec)[i]).days[k]].OFF)

\* C6, as claimed: every result with status ok minimizes the penalty sum, and
\* when a feasible assignment has penalty sum 0 the objective is 0 and every
\* day-off request is granted
C6_OkMinimizesPenalty ==
    Ok => /\ ObjectiveIsLeast
          /\ ZeroPenaltyFeasible =>
                /\ result.objective = 0
                /\ RequestsGranted(ConstraintsOfKind("penalize_unmet_day_off_requests"))

\* C6, amended: a result with status ok that the solver proved OPTIMAL
\* minimizes the penalty sum, and when a feasible assignment has penalty sum 0
\* the objective is 0 and every day-off request of a constraint with
\* weight > 0 is granted
C6_OptimalMinimizesPenalty ==
    (Ok /\ status = "OPTIMAL") =>
        /\ ObjectiveIsLeast
        /\ ZeroPenaltyFeasible =>
              /\ result.objective = 0
              /\ RequestsGranted({i \in ConstraintsOfKind("penalize_unmet_day_off_requests") :
                                    weight_of(constraints_of(spec)[i]) > 0})

\* an OPTIMAL result with objective 0 for a weighted request of some employee,
\* where the employee could also have been put to work
C6_Witness ==
    /\ Ok /\ status = "OPTIMAL" /\ result.objective = 0
    /\ \E i \in ConstraintsOfKind("penalize_unmet_day_off_requests") :
          /\ weight_of(constraints_of(spec)[i]) > 0
          /\ Scoped(constraints_of(spec)[i]) # {}
    /\ \E b \in FeasibleSet(model) : ObjectiveValue(model, b) > 0

\* C7: for every terminal solver status compile_and_solve returns a record and
\* does not raise: OPTIMAL and FEASIBLE give a record with status ok carrying
\* objective, schedule and metrics; INFEASIBLE, UNKNOWN and MODEL_INVALID give
\* exactly {status: no_solution}
C7_StatusDispatch ==
    (status # "none" /\ pc \in {"returned", "raised"}) =>
        /\ pc = "returned"
        /\ status \in {"OPTIMAL", "FEASIBLE"} =>
              /\ result.status = "ok"
              /\ DOMAIN result = {"status", "objective", "schedule", "metrics"}
        /\ status \in {"INFEASIBLE", "UNKNOWN", "MODEL_INVALID"} =>
              result = [status |-> "no_solution"]

\* C8: the record validate_spec returns has ok = true if and only if its
\* errors list is empty, whatever its warnings, the early return for a
\* missing sets key included
C8_OkIffNoErrors ==
    pc = "returned" => (result.ok <=> result.errors = <<>>)

\* validate_spec returned ok = true together with warnings
C8_Witness ==
    pc = "returned" /\ result.ok /\ result.warnings # <<>>

\* C9: validate_spec is total: for every spec, whatever the shape of its
\* parts, the call ends with a record {ok, errors, warnings} and never with an
\* exception
C9_ValidateNeverRaises ==
    pc # "call" => (pc = "returned" /\ DOMAIN result = {"ok", "errors", "warnings"})

\* C10: compile_and_solve leaves its input spec unchanged: no step of the call
\* changes any part of the spec, the top-level shifts without an OFF entry
\* included
C10_SpecUnchanged == [][spec' = spec]_vars

\* the number of sites at which schedule[day][site][s] lists e
SitesAssigned(e, day, s) ==
    Cardinality({site \in DOMAIN result.schedule[day] \ {"OFF"} :
                    s \in DOMAIN result.schedule[day][site]
                    /\ e \in ToSet(result.schedule[day][site][s])})

\* C11: in every result with status ok, minutes_worked[e] is the sum over
\* the days and the work shifts of the shift's minutes times the number of
\* sites at which e is assigned the shift that day
C11_MinutesWorkedPerSite ==
    Ok => \A e \in ToSet(spec.sets.employees) :
            result.metrics.minutes_worked[e] =
                SumSeq([j \in 1..Len(spec.sets.days) |->
                    SumSeq([i \in 1..Len(CompileContext(spec).work_shifts) |->
                        shift_minutes(CompileContext(spec), CompileContext(spec).work_shifts[i])
                        * SitesAssigned(e, spec.sets.days[j], CompileContext(spec).work_shifts[i])])])

----------------------------------------------------------------------------
(* select_employees_by_scope on its own: the call of line 696 for the      *)
(* scope of the first constraint, made twice with the same arguments.      *)

\* employees with skills, roles, a home site and a contract; P3 has no roles
\* and a contract without a type, P9 is not described at all
ScopeEmployees ==
    [P1 |-> [skills |-> {"certified", "senior"}, roles |-> {"team_lead"},
             site_home |-> "A", contract |-> [type |-> "full_time"]],
     P2 |-> [skills |-> {"certified"}, roles |-> {"nurse"},
             site_home |-> "B", contract |-> [type |-> "part_time"]],
     P3 |-> [skills |-> {"junior"}, site_home |-> "A", contract |-> EmptyDict]]

ScopeGroups == [night |-> <<"P1", "P2">>, day |-> <<"P2", "P3", "P9">>]

\* a filter key left out, or present with one of the values
FilterChoices(key, values) == {EmptyDict} \cup {[k \in {key} |-> v] : v \in values}

ScopeChoices ==
    {e @@ g @@ sk @@ sa @@ rk @@ ra @@ si @@ co :
        e \in FilterChoices("employees", {ALL, <<"P2", "P1">>, <<"P9", "P3", "P3">>, <<>>}),
        g \in FilterChoices("groups", {<<>>, <<"night">>, <<"night", "day">>, <<"ghost">>}),
        sk \in FilterChoices("skills_any", {<<>>, <<"certified", "junior">>}),
        sa \in FilterChoices("skills_all", {<<"certified", "senior">>}),
        rk \in FilterChoices("roles_any", {<<"team_lead", "nurse">>}),
        ra \in FilterChoices("roles_all", {<<"team_lead">>}),
        si \in FilterChoices("sites_any", {<<"A">>}),
        co \in FilterChoices("contracts_any", {<<"full_time">>})}

\* sets.employees out of order, and with an id listed twice
ScopeInputs ==
    {[sets |-> [employees |-> emps, days |-> <<"D1">>, shifts |-> <<"OFF", "M">>],
      employees |-> ScopeEmployees, groups |-> ScopeGroups,
      constraints |-> <<[id |-> "c", type |-> "hard",
                         kind |-> "exactly_one_assignment_per_day", scope |-> sc]>>] :
        emps \in {<<"P3", "P1", "P2">>, <<"P2", "P1", "P2">>}, sc \in ScopeChoices}

InitScope ==
    /\ spec \in ScopeInputs
    /\ pc = "call"
    /\ model = NoModel
    /\ status = "none"
    /\ sol = NoSol
    /\ result = NoResult
    /\ solver_jobs = NoJobs
    /\ http = NoResponse

\* line 696: emps = select_employees_by_scope(spec, scope)
Select ==
    /\ pc = "call"
    /\ pc' = "selected"
    /\ result' = select_employees_by_scope(spec, scope_of(constraints_of(spec)[1]))
    /\ UNCHANGED <<spec, model, status, sol, solver_jobs, http>>

\* the same call made again with the same arguments
SelectAgain ==
    /\ pc = "selected"
    /\ pc' = "reselected"
    /\ result' = select_employees_by_scope(spec, scope_of(constraints_of(spec)[1]))
    /\ UNCHANGED <<spec, model, status, sol, solver_jobs, http>>

NextScope == Select \/ SelectAgain

SpecScope == InitScope /\ [][NextScope]_vars

\* the scope the call is made with
CalledScope == scope_of(constraints_of(spec)[1])

\* the start set: every id of sets.employees when the scope is empty, has no
\* employees key or has employees = "ALL"; the explicit list otherwise
StartSet ==
    IF DOMAIN CalledScope = {} \/ "employees" \notin DOMAIN CalledScope
       \/ CalledScope.employees = ALL
    THEN {spec.sets.employees[i] : i \in DOMAIN spec.sets.employees}
    ELSE {CalledScope.employees[i] : i \in DOMAIN CalledScope.employees}

\* the list under a filter key, empty when the key is absent
Listed(key) ==
    IF key \in DOMAIN CalledScope
    THEN {CalledScope[key][i] : i \in DOMAIN CalledScope[key]} ELSE {}

\* the skills or roles an employee declares
Declared(e, key) ==
    IF e \in DOMAIN spec.employees /\ key \in DOMAIN spec.employees[e]
    THEN spec.employees[e][key] ELSE {}

\* e passes every present non-empty filter
PassesFilters(e) ==
    /\ \A g \in Listed("groups") :
          g \in DOMAIN spec.groups /\ \E i \in DOMAIN spec.groups[g] : spec.groups[g][i] = e
    /\ Listed("skills_any") # {} => \E k \in Listed("skills_any") : k \in Declared(e, "skills")
    /\ \A k \in Listed("skills_all") : k \in Declared(e, "skills")
    /\ Listed("roles_any") # {} => \E k \in Listed("roles_any") : k \in Declared(e, "roles")
    /\ \A k \in Listed("roles_all") : k \in Declared(e, "roles")
    /\ Listed("sites_any") # {} =>
          /\ e \in DOMAIN spec.employees /\ "site_home" \in DOMAIN spec.employees[e]
          /\ spec.employees[e].site_home \in Listed("sites_any")
    /\ Listed("contracts_any") # {} =>
          /\ e \in DOMAIN spec.employees /\ "contract" \in DOMAIN spec.employees[e]
          /\ "type" \in DOMAIN spec.employees[e].contract
          /\ spec.employees[e].contract.type \in Listed("contracts_any")

\* the position of an id in ascending lexical order
LexicalRank(e) == CHOOSE i \in DOMAIN IdOrder : IdOrder[i] = e

\* the filters applied in the opposite order, contracts first and groups last
SelectedInReverseOrder ==
    InAllGroups(get_groups(spec), normalize_list(CalledScope, "groups"),
      FilterAny(spec, Listed("skills_any"), "skills",
        FilterAll(spec, Listed("skills_all"), "skills",
          FilterAny(spec, Listed("roles_any"), "roles",
            FilterAll(spec, Listed("roles_all"), "roles",
              FilterSites(spec, Listed("sites_any"),
                FilterContracts(spec, Listed("contracts_any"), StartSet)))))))

\* the list the call returned is ascending, without duplicates, and holds
\* exactly the ids of the start set that pass every filter, as it also does
\* with the filters applied in the opposite order
SelectionAsSpecified ==
    pc \in {"selected", "reselected"} =>
        /\ \A i, j \in DOMAIN result : i < j => LexicalRank(result[i]) < LexicalRank(result[j])
        /\ {result[i] : i \in DOMAIN result} = {e \in StartSet : PassesFilters(e)}
        /\ {result[i] : i \in DOMAIN result} = SelectedInReverseOrder

\* C12: select_employees_by_scope returns, ascending and without duplicates,
\* exactly the ids of the start set that pass every present non-empty filter
\* (an unknown group has no members, an absent or empty filter changes
\* nothing), whatever the order of the filters, and the same list when it is
\* called again with the same arguments
C12_SelectByScope ==
    /\ []SelectionAsSpecified
    /\ [][pc = "selected" => result' = result]_vars

\* a second call returned two ids out of a larger start set that was given
\* out of order, with a group filter and a skill filter at work
C12_Witness ==
    /\ pc = "reselected"
    /\ Len(result) = 2
    /\ Cardinality(StartSet) = 3
    /\ spec.sets.employees[1] = "P3"
    /\ Listed("groups") # {} /\ Listed("skills_any") # {}

----------------------------------------------------------------------------
(* rest_minutes_between on its own, for two shift definitions with valid   *)
(* HH:MM times.                                                            *)

\* times of day, among them midnight, the last minute of the day and the
\* times of the shifts 22:00-06:00 and 08:00-16:00
TimesOfDay ==
    {<<0, 0>>, <<5, 30>>, <<6, 0>>, <<8, 0>>, <<14, 0>>, <<16, 0>>, <<22, 0>>, <<23, 59>>}

RestInputs ==
    {[sets |-> [employees |-> <<"P1">>, days |-> <<"D1", "D2">>, shifts |-> <<"OFF", "A", "B">>],
      shifts |-> [A |-> [start |-> t[1], end |-> t[2]], B |-> [start |-> t[3], end |-> t[4]]]] :
        t \in TimesOfDay \X TimesOfDay \X TimesOfDay \X TimesOfDay}

InitRest ==
    /\ spec \in RestInputs
    /\ pc = "call"
    /\ model = NoModel
    /\ status = "none"
    /\ sol = NoSol
    /\ result = NoResult
    /\ solver_jobs = NoJobs
    /\ http = NoResponse

\* line 731: rest = rest_minutes_between(shift_defs[s1], shift_defs[s2])
Rest ==
    /\ pc = "call"
    /\ pc' = "rested"
    /\ result' = rest_minutes_between(spec.shifts.A, spec.shifts.B)
    /\ UNCHANGED <<spec, model, status, sol, solver_jobs, http>>

NextRest == Rest

SpecRest == InitRest /\ [][NextRest]_vars

\* minutes since 00:00 of a time HH:MM
MinutesOfDay(t) == 60 * t[1] + t[2]

\* the end of shift a on the absolute timeline: next day when a is overnight
EndAbs(a) ==
    IF MinutesOfDay(a.end) >= MinutesOfDay(a.start)
    THEN MinutesOfDay(a.end) ELSE MinutesOfDay(a.end) + 1440

\* C13: rest_minutes_between(a, b) = (1440 + start_b) - end_a_abs; 22:00-06:00
\* followed by a 14:00 start gives 480, 08:00-16:00 followed by a 00:00 start
\* gives 480, and the result is negative exactly when a is overnight and ends
\* after b starts
C13_RestMinutes ==
    pc = "rested" =>
        /\ result = (1440 + MinutesOfDay(spec.shifts.B.start)) - EndAbs(spec.shifts.A)
        /\ (spec.shifts.A.start = <<22, 0>> /\ spec.shifts.A.end = <<6, 0>>
            /\ spec.shifts.B.start = <<14, 0>>) => result = 480
        /\ (spec.shifts.A.start = <<8, 0>> /\ spec.shifts.A.end = <<16, 0>>
            /\ spec.shifts.B.start = <<0, 0>>) => result = 480
        /\ result < 0 <=>
              /\ MinutesOfDay(spec.shifts.A.end) < MinutesOfDay(spec.shifts.A.start)
              /\ MinutesOfDay(spec.shifts.A.end) > MinutesOfDay(spec.shifts.B.start)

\* the rest after an overnight shift that ends after the next one starts
C13_Witness ==
    /\ pc = "rested"
    /\ spec.shifts.A.start = <<22, 0>> /\ spec.shifts.A.end = <<6, 0>>
    /\ spec.shifts.B.start = <<5, 30>>
    /\ result = -30

----------------------------------------------------------------------------
(* The job layer: POST /jobs (create_job) validates the spec, inserts a    *)
(* row of solver_jobs and starts run_job in a background thread; run_job   *)
(* calls compile_and_solve and records how it ended.  A column that is     *)
(* NULL is a key the row does not have.                                    *)

\* str(uuid.uuid4())
NewJobId == "J1"

\* lines 57-69: INSERT INTO solver_jobs ... VALUES (:job_id, 'queued', :spec, :params)
db_insert_job(jobs, job_id, sp) ==
    [j \in {job_id} |-> [status |-> "queued", spec_json |-> sp]] @@ jobs

\* db_update_status without its WHERE clause
db_update_every_row(jobs, job_id, st, given) ==
    [j \in DOMAIN jobs |-> [status |-> st] @@ given @@ jobs[j]]

\* lines 71-95: UPDATE solver_jobs SET status = :status, col = COALESCE(:col, col)
\* WHERE job_id = :job_id; given holds the arguments that are not None
db_update_status(jobs, job_id, st, given) ==
    IF job_id \in DOMAIN jobs
    THEN [jobs EXCEPT ![job_id] = [status |-> st] @@ given @@ jobs[job_id]]
    ELSE jobs

\* create_job that never looks at v["ok"]
CreateJobResponseUnchecked(v) ==
    IF Has(v, "raised") THEN [status_code |-> 500]
    ELSE [job_id |-> NewJobId, status |-> "queued"]

\* lines 962-977: what POST /jobs answers for the outcome v of validate_spec
\* (an exception of validate_spec leaves the handler: 500)
CreateJobResponse(v) ==
    IF Has(v, "raised") THEN [status_code |-> 500]
    ELSE IF ~v.ok
    THEN [status_code |-> 400, detail |-> [message |-> "Spec invalid", validation |-> v]]
    ELSE [job_id |-> NewJobId, status |-> "queued"]

\* lines 961-977: the row is inserted and the thread started only on the
\* path that returns the job id
create_job ==
    /\ pc = "request"
    /\ http' = CreateJobResponse(validate_spec(spec))
    /\ IF Has(CreateJobResponse(validate_spec(spec)), "job_id")
       THEN /\ solver_jobs' = db_insert_job(solver_jobs, NewJobId, spec)
            /\ pc' = "queued"
       ELSE /\ UNCHANGED solver_jobs
            /\ pc' = "rejected"
    /\ UNCHANGED <<spec, model, status, sol, result>>

\* line 130: the thread starts with db_update_status(job_id, "running", started_at=utcnow())
RunJobStarts ==
    /\ pc = "queued"
    /\ solver_jobs' = db_update_status(solver_jobs, NewJobId, "running", [started_at |-> "utcnow"])
    /\ pc' = "call"
    /\ UNCHANGED <<spec, model, status, sol, result, http>>

\* run_job that records every returned record as done
JobOutcomeAlwaysDone(res) ==
    IF Has(res, "raised")
    THEN [status |-> "failed", given |-> [finished_at |-> "utcnow", error |-> res.raised]]
    ELSE [status |-> "done", given |-> [finished_at |-> "utcnow", result_json |-> res]]

\* lines 132-140: the status and the columns run_job writes for the record
\* compile_and_solve returned, or for the exception it raised
JobOutcome(res) ==
    IF Has(res, "raised")
    THEN [status |-> "failed", given |-> [finished_at |-> "utcnow", error |-> res.raised]]
    ELSE IF res.status = "no_solution"
    THEN [status |-> "failed",
          given |-> [finished_at |-> "utcnow", error |-> "No feasible solution"]]
    ELSE [status |-> "done", given |-> [finished_at |-> "utcnow", result_json |-> res]]

\* lines 133-140: run_job after compile_and_solve ended
RunJobEnds ==
    /\ pc \in {"returned", "raised"}
    /\ solver_jobs' = db_update_status(solver_jobs, NewJobId,
                                       JobOutcome(result).status, JobOutcome(result).given)
    /\ pc' = "finished"
    /\ UNCHANGED <<spec, model, status, sol, result, http>>

\* the specs POST /jobs is called with: specs that compile_and_solve is
\* called with, and the faulty specs on which validate_spec raises or
\* reports errors
JobInputs ==
    DefsFamily \cup DemandFamily
    \cup {sp \in FaultFamily : Has(validate_spec(sp), "raised") \/ ~validate_spec(sp).ok}

InitJobs ==
    /\ spec \in JobInputs
    /\ pc = "request"
    /\ model = NoModel
    /\ status = "none"
    /\ sol = NoSol
    /\ result = NoResult
    /\ solver_jobs = NoJobs
    /\ http = NoResponse

NextJobs == create_job \/ RunJobStarts \/ Compile \/ Solve \/ Return \/ RunJobEnds

SpecJobs == InitJobs /\ [][NextJobs]_vars

\* compile_and_solve returned {status: no_solution} for the job
NoSolutionReturned ==
    pc \in {"returned", "finished"} /\ Has(result, "status") /\ result.status = "no_solution"

ValidationOk(sp) == ~Has(validate_spec(sp), "raised") /\ validate_spec(sp).ok

\* a spec that validate_spec refuses has been rejected, without a row
\* in solver_jobs, once the request is handled
RefusedMeansRejected ==
    /\ pc = "request" => solver_jobs = NoJobs
    /\ (pc # "request" /\ ~ValidationOk(spec)) =>
          /\ pc = "rejected"
          /\ solver_jobs = NoJobs
          /\ Has(http, "status_code") /\ http.status_code \in {400, 500}

\* C15: on the job-creating path validation comes first: a job row is
\* inserted, and compile_and_solve is started, only after validate_spec
\* returned ok = true; for a spec with a validation error no row is created,
\* no background solve is started and the request is rejected
C15_ValidationFirst ==
    /\ []RefusedMeansRejected
    /\ [][(solver_jobs = NoJobs /\ solver_jobs' # NoJobs) => ValidationOk(spec)]_vars
    /\ [][pc' = "call" => (ValidationOk(spec) /\ NewJobId \in DOMAIN solver_jobs)]_vars
    /\ [][pc = "rejected" => pc' = "rejected"]_vars

\* a spec with validation errors was answered 400 and left no row
C15_Witness ==
    /\ pc = "rejected"
    /\ Has(http, "status_code") /\ http.status_code = 400
    /\ Len(http.detail.validation.errors) >= 1
    /\ solver_jobs = NoJobs

----------------------------------------------------------------------------
(* compile_and_solve on specs with one constraint of each of the eleven    *)
(* kinds, of either type, over several scopes, and on specs with two       *)
(* constraints in both orders.                                             *)

\* the kinds compiled as rows only, and the kinds that add penalty terms
HardKinds ==
    {"exactly_one_assignment_per_day", "forbid_shift_sequences",
     "min_rest_minutes_between_shifts", "max_shifts_in_window",
     "max_work_minutes_in_window", "max_consecutive_work_days",
     "min_consecutive_days_off"}

SoftKinds ==
    {"penalize_work_on_days", "penalize_work_on_shifts",
     "penalize_unmet_day_off_requests", "fair_distribution"}

\* the sets with the default site only; fair_distribution, whose auxiliaries
\* range over 0..len(days), is compiled for those with at most MaxFairVars
\* decision variables
KindSets(kind) ==
    {sets \in SetsChoices :
        /\ ~Has(sets, "sites")
        /\ kind = "fair_distribution" =>
              Len(sets.employees) * Len(sets.days) * Len(sets.shifts) <= MaxFairVars}

\* every employee, the explicit list [P1], and two scopes that select nobody
KindScopes ==
    {EmptyDict, [scope |-> [employees |-> <<"P1">>]],
     [scope |-> [employees |-> <<>>]], [scope |-> [groups |-> <<"ghost">>]]}

\* the data payloads of a kind, well-formed ones and ones the compiler refuses
KindData(kind) ==
    IF kind = "exactly_one_assignment_per_day" THEN {EmptyDict, [shifts |-> <<"M">>]}
    ELSE IF kind = "forbid_shift_sequences"
    THEN {[forbidden_pairs |-> <<[prev_shift |-> "M", next_shift |-> "M"]>>],
          [forbidden_pairs |-> <<[prev_shift |-> "M", next_shift |-> "OFF"]>>]}
    ELSE IF kind = "min_rest_minutes_between_shifts"
    THEN {[min_rest_minutes |-> 961], EmptyDict}
    ELSE IF kind = "max_shifts_in_window"
    THEN {[window_days |-> w, max |-> m] : w \in 1..(MaxDays + 1), m \in 0..1}
         \cup {[window_days |-> 1, max |-> 1, mode |-> "fixed"], EmptyDict}
    ELSE IF kind = "max_work_minutes_in_window"
    THEN {[window_days |-> MaxDays, max_minutes |-> 480], [window_days |-> 1]}
    ELSE IF kind = "max_consecutive_work_days" THEN {[max |-> 0], [max |-> 1], EmptyDict}
    ELSE IF kind = "min_consecutive_days_off" THEN {[min |-> 2], EmptyDict}
    ELSE IF kind = "penalize_work_on_days" THEN {[days |-> <<"D1">>], EmptyDict}
    ELSE IF kind = "penalize_work_on_shifts" THEN {[shifts |-> <<"M">>]}
    ELSE IF kind = "penalize_unmet_day_off_requests" THEN {[days |-> <<"D1">>], EmptyDict}
    ELSE {[shifts |-> <<"M">>], [shifts |-> <<"M">>, target |-> 1],
          [shifts |-> <<"M">>, window_days |-> 1], [measure |-> "minutes"], EmptyDict}

\* the constraints of a kind: hard or soft, each scope, each payload, weight 5
KindConstraints(kind) ==
    {Constraint("k", type, kind, sc, [data |-> data]) @@ [penalty |-> [weight |-> 5]] :
        type \in {"hard", "soft"}, sc \in KindScopes, data \in KindData(kind)}

\* one constraint, with and without a demand of one employee on M on D1
KindFamily ==
    UNION {UNION {{BaseSpec(sets, FullDefs(sets.shifts)) @@ dem @@ [constraints |-> <<c>>] :
                    dem \in {EmptyDict, [demand |-> <<[day |-> "D1", shift |-> "M", eq |-> 1]>>]},
                    c \in KindConstraints(kind)} : sets \in KindSets(kind)} :
           kind \in HardKinds \cup SoftKinds}

InitKinds ==
    /\ spec \in KindFamily
    /\ pc = "call"
    /\ model = NoModel
    /\ status = "none"
    /\ sol = NoSol
    /\ result = NoResult
    /\ solver_jobs = NoJobs
    /\ http = NoResponse

NextKinds == Compile \/ Solve \/ Return

SpecKinds == InitKinds /\ [][NextKinds]_vars

----------------------------------------------------------------------------
(* The type of a constraint and its kind.                                  *)

\* the only constraint of the spec, and the same constraint with the other type
OnlyConstraint == spec.constraints[1]
Retyped(c) == [c EXCEPT !.type = IF c.type = "soft" THEN "hard" ELSE "soft"]

\* what compile_and_solve builds for the spec with its constraints replaced
CompiledWith(cs) ==
    LET cx == CompileContext([spec EXCEPT !.constraints = cs])
    IN  [cx |-> cx, out |-> CompileModel(cx)]

\* the state after Compile is the one that the constraints cs lead to: the
\* same error raised, or the same model built
CompilesLike(cs) ==
    LET w == CompiledWith(cs)
    IN  IF w.out.err # NoErr
        THEN pc = "raised" /\ result = [raised |-> w.out.err]
        ELSE pc # "raised" /\ model = ModelOf(w.cx, w.out)

\* C16: a constraint of one of the four soft kinds whose type is not soft
\* makes compile_and_solve raise ValueError, whatever its scope; a constraint
\* of one of the seven hard kinds compiles to the same rows whether its type
\* is hard or soft, and adds no penalty term
C16_TypeAndKind ==
    pc # "call" =>
        /\ (OnlyConstraint.kind \in SoftKinds /\ OnlyConstraint.type # "soft")
              => pc = "raised" /\ result = [raised |-> "ValueError"]
        /\ OnlyConstraint.kind \in HardKinds
              => /\ CompilesLike(<<Retyped(OnlyConstraint)>>)
                 /\ pc # "raised" => model.penalty_terms = <<>>

C16_Witness ==
    /\ pc = "raised"
    /\ result = [raised |-> "ValueError"]
    /\ OnlyConstraint.kind = "penalize_work_on_shifts"
    /\ OnlyConstraint.type = "hard"
    /\ select_employees_by_scope(spec, scope_of(OnlyConstraint)) = <<>>
    /\ Len(spec.sets.employees) >= 1

----------------------------------------------------------------------------
(* Two constraints, in either order.                                       *)

\* one constraint of each kind, and one that the compiler refuses
OrderPool ==
    {Constraint("one", "hard", "exactly_one_assignment_per_day", EmptyDict, EmptyDict),
     Constraint("seq", "hard", "forbid_shift_sequences", EmptyDict,
                [data |-> [forbidden_pairs |-> <<[prev_shift |-> "M", next_shift |-> "M"]>>]]),
     Constraint("rest", "hard", "min_rest_minutes_between_shifts", EmptyDict,
                [data |-> [min_rest_minutes |-> 961]]),
     Constraint("cap", "hard", "max_shifts_in_window", EmptyDict,
                [data |-> [window_days |-> 2, max |-> 1]]),
     Constraint("mins", "hard", "max_work_minutes_in_window", EmptyDict,
                [data |-> [window_days |-> 1, max_minutes |-> 0]]),
     Constraint("run", "hard", "max_consecutive_work_days", EmptyDict, [data |-> [max |-> 1]]),
     Constraint("offs", "hard", "min_consecutive_days_off", [scope |-> [employees |-> <<"P1">>]],
                [data |-> [min |-> 2]]),
     Constraint("pd", "soft", "penalize_work_on_days", EmptyDict, [data |-> [days |-> <<"D1">>]])
        @@ [penalty |-> [weight |-> 5]],
     Constraint("ps", "soft", "penalize_work_on_shifts", EmptyDict, [data |-> [shifts |-> <<"M">>]])
        @@ [penalty |-> [weight |-> 5]],
     Constraint("req", "soft", "penalize_unmet_day_off_requests", EmptyDict,
                [data |-> [days |-> <<"D1">>]]) @@ [penalty |-> [weight |-> 5]],
     Constraint("fair", "soft", "fair_distribution", EmptyDict, [data |-> [shifts |-> <<"M">>]])
        @@ [penalty |-> [weight |-> 5]],
     Constraint("bad", "hard", "penalize_work_on_shifts", EmptyDict, [data |-> [shifts |-> <<"M">>]])}

\* the ordered pairs of different constraints of the pool
OrderPairs == {<<a, b>> : a, b \in OrderPool} \ {<<a, a>> : a \in OrderPool}

OrderFamily ==
    UNION {{BaseSpec(sets, FullDefs(sets.shifts)) @@ dem @@ [constraints |-> cs] :
              dem \in {EmptyDict, [demand |-> <<[day |-> "D1", shift |-> "M", eq |-> 1]>>]},
              sets \in KindSets(cs[1].kind) \cap KindSets(cs[2].kind)} :
           cs \in OrderPairs}

InitOrder ==
    /\ spec \in OrderFamily
    /\ pc = "call"
    /\ model = NoModel
    /\ status = "none"
    /\ sol = NoSol
    /\ result = NoResult
    /\ solver_jobs = NoJobs
    /\ http = NoResponse

NextOrder == Compile \/ Solve \/ Return

SpecOrder == InitOrder /\ [][NextOrder]_vars

\* the assignments of a feasible set, restricted to the variables x and off
OnDecisions(cx, F) == {[v \in cx.keys |-> a[v]] : a \in F}

Reversed(cs) == [i \in 1..Len(cs) |-> cs[Len(cs) + 1 - i]]

\* C17: for a spec that compiles without error, the assignments of x and off
\* that satisfy the model are the same when the entries of constraints[] are
\* listed in the opposite order
C17_OrderOfConstraints ==
    pc = "built" =>
        LET w == CompiledWith(Reversed(spec.constraints))
        IN  /\ w.out.err = NoErr
            /\ OnDecisions(w.cx, FeasibleSet(ModelOf(w.cx, w.out)))
                  = OnDecisions(w.cx, FeasibleSet(model))

C17_Witness ==
    /\ pc = "built"
    /\ spec.constraints[1].kind = "min_consecutive_days_off"
    /\ spec.constraints[2].kind = "penalize_unmet_day_off_requests"
    /\ model # ModelOf(CompileContext(spec), CompiledWith(Reversed(spec.constraints)).out)
    /\ FeasibleSet(model) # {}
    /\ Cardinality(OnDecisions(CompileContext(spec), FeasibleSet(model)))
          < Cardinality(FeasibleSet(ModelOf(CompileContext(spec), CompileDemand(CompileContext(spec)))))

----------------------------------------------------------------------------
(* A horizon of one day.                                                   *)

\* the rows of the built model that follow the rows of the demand
ConstraintRows ==
    SubSeq(model.rows, Len(CompileDemand(CompileContext(spec)).rows) + 1, Len(model.rows))

SequenceKinds == {"forbid_shift_sequences", "min_rest_minutes_between_shifts"}
WindowKinds ==
    {"max_shifts_in_window", "max_work_minutes_in_window", "max_consecutive_work_days"}

SingleDay == Len(spec.sets.days) = 1

\* the constraint also raises on a horizon of two days
RaisesOnTwoDays(c) ==
    CompileConstraint(CompileContext([spec EXCEPT !.sets.days = <<"D1", "D2">>]), c, 1).err # NoErr

\* one row per scoped employee over the shifts of the only day, day 0
OneDayRows(cx, c, Terms(_, _), bound) ==
    [i \in 1..Len(select_employees_by_scope(cx.spec, scope_of(c))) |->
        Row(Terms(select_employees_by_scope(cx.spec, scope_of(c))[i],
                  counted_shifts(cx, data_of(c), "shifts", cx.work_shifts)), "<=", bound)]

\* the rows of a constraint on a horizon of one day: none for the kinds about
\* two consecutive days; for the window kinds the window is the one day
SingleDayRows(cx, c) ==
    IF c.kind \in SequenceKinds THEN <<>>
    ELSE IF c.kind = "max_shifts_in_window"
    THEN OneDayRows(cx, c, LAMBDA e, counted : SumOver(cx, e, 0, counted), data_of(c).max)
    ELSE IF c.kind = "max_work_minutes_in_window"
    THEN OneDayRows(cx, c,
            LAMBDA e, counted : Concat([j \in 1..Len(counted) |-> [k \in 1..Len(cx.sites) |->
                <<shift_minutes(cx, counted[j]), x(e, 0, counted[j], cx.sites[k])>>]]),
            data_of(c).max_minutes)
    ELSE IF data_of(c).max = 0
    THEN OneDayRows(cx, c, LAMBDA e, counted : works_day(cx, e, 0), 0)
    ELSE <<>>

\* C18 as stated: with a horizon of one day, forbid_shift_sequences,
\* min_rest_minutes_between_shifts and the three window kinds each add zero
\* rows to the model, and compile_and_solve does not raise because of them
C18_SingleDayNoRows ==
    (pc # "call" /\ SingleDay /\ OnlyConstraint.kind \in SequenceKinds \cup WindowKinds) =>
        /\ pc = "raised" => RaisesOnTwoDays(OnlyConstraint)
        /\ pc # "raised" => ConstraintRows = <<>>

\* C18: with a horizon of one day, forbid_shift_sequences and
\* min_rest_minutes_between_shifts add zero rows; max_shifts_in_window and
\* max_work_minutes_in_window add one row per scoped employee, for the window
\* that is the one day; max_consecutive_work_days adds one row per scoped
\* employee when max is 0 and none otherwise; compile_and_solve raises only
\* if it raises for the same constraint on a longer horizon
C18_SingleDayRows ==
    (pc # "call" /\ SingleDay /\ OnlyConstraint.kind \in SequenceKinds \cup WindowKinds) =>
        /\ pc = "raised" => RaisesOnTwoDays(OnlyConstraint)
        /\ pc # "raised" => ConstraintRows = SingleDayRows(CompileContext(spec), OnlyConstraint)

C18_Witness ==
    /\ pc = "built"
    /\ SingleDay
    /\ OnlyConstraint.kind = "max_shifts_in_window"
    /\ data_of(OnlyConstraint).window_days > 1
    /\ Len(ConstraintRows) = Len(spec.sets.employees)
    /\ \A i \in DOMAIN ConstraintRows : ConstraintRows[i].terms # <<>>

----------------------------------------------------------------------------
(* max_shifts_in_window over the whole horizon.                            *)

\* for each scoped employee, the number of counted shifts over all days is
\* at most max
HorizonWideRows(cx, c) ==
    [i \in 1..Len(select_employees_by_scope(cx.spec, scope_of(c))) |->
        Row(WindowSum(cx, select_employees_by_scope(cx.spec, scope_of(c))[i], DayRange(cx),
                      counted_shifts(cx, data_of(c), "shifts", cx.work_shifts)),
            "<=", data_of(c).max)]

\* the built model with other rows in the place of the rows of the constraint
WithConstraintRows(rows) ==
    [model EXCEPT !.rows = SubSeq(model.rows, 1, Len(model.rows) - Len(ConstraintRows)) \o rows]

WindowCoversHorizon ==
    /\ pc = "built"
    /\ OnlyConstraint.kind = "max_shifts_in_window"
    /\ data_of(OnlyConstraint).window_days >= Len(spec.sets.days)

\* C19: the rows of a max_shifts_in_window constraint with window_days >=
\* |days| allow the same assignments as the single horizon-wide bound, one row
\* per scoped employee over all days
C19_WindowCoversHorizon ==
    WindowCoversHorizon =>
        FeasibleSet(model)
            = FeasibleSet(WithConstraintRows(HorizonWideRows(CompileContext(spec), OnlyConstraint)))

C19_Witness ==
    /\ WindowCoversHorizon
    /\ Len(spec.sets.days) = 2
    /\ select_employees_by_scope(spec, scope_of(OnlyConstraint)) # <<>>
    /\ Len(ConstraintRows) > Len(HorizonWideRows(CompileContext(spec), OnlyConstraint))
    /\ FeasibleSet(model) # {}
    /\ FeasibleSet(model) # FeasibleSet(WithConstraintRows(<<>>))

----------------------------------------------------------------------------
(* A scope that selects nobody.                                            *)

SelectsNobody == select_employees_by_scope(spec, scope_of(OnlyConstraint)) = <<>>

\* the constraint without its scope: every employee is selected
Unscoped(c) == [k \in DOMAIN c \ {"scope"} |-> c[k]]

\* the model and the result are those of the spec without the constraint:
\* only the rows of the demand, no auxiliary variable, no penalty term
AsWithoutConstraint ==
    /\ CompilesLike(<<>>)
    /\ DOMAIN model.dom = CompileContext(spec).keys
    /\ ConstraintRows = <<>>
    /\ model.penalty_terms = <<>>
    /\ (pc = "returned" /\ result.status = "ok") => result.objective = 0

\* validate_spec accepts the spec
Validated == ~Has(validate_spec(spec), "raised") /\ validate_spec(spec).ok

----------------------------------------------------------------------------
(* Soft constraints and the feasible assignments.                          *)

\* the assignments of x and off that satisfy the model built for the spec
\* with its constraints replaced by cs
DecisionsWith(cs) ==
    LET w == CompiledWith(cs)
    IN  OnDecisions(w.cx, FeasibleSet(ModelOf(w.cx, w.out)))

\* C21: a soft constraint of one of the four soft kinds, accepted by
\* validate_spec and by the compiler, leaves the set of feasible assignments
\* of x and off as it is without the constraint, and never turns a spec with
\* a feasible assignment into an INFEASIBLE one
C21_SoftKeepsFeasible ==
    (pc \in {"built", "solved"} /\ OnlyConstraint.kind \in SoftKinds
        /\ OnlyConstraint.type = "soft" /\ Validated) =>
        /\ OnDecisions(CompileContext(spec), FeasibleSet(model)) = DecisionsWith(<<>>)
        /\ (status = "INFEASIBLE" => DecisionsWith(<<>>) = {})

----------------------------------------------------------------------------
(* Specs that validate_spec accepts, in compile_and_solve.                 *)

\* C22: for a spec for which validate_spec returned ok = true (the spec of a
\* job), compile_and_solve does not raise KeyError or ValueError: it builds
\* the model and returns a record with status ok or no_solution
C22_ValidatedCompiles ==
    (NewJobId \in DOMAIN solver_jobs /\ ValidationOk(solver_jobs[NewJobId].spec_json)) =>
        /\ pc = "raised" => result.raised \notin {"KeyError", "ValueError"}
        /\ pc = "returned" => result.status \in {"ok", "no_solution"}

----------------------------------------------------------------------------
(* compile_and_solve as one step: the records it can return and the        *)
(* exceptions it can raise for a spec.                                     *)

\* lines 593-603 and 640-883: the exception raised before the solver runs
CallRaises(sp) ==
    IF "OFF" \notin ToSet(sp.sets.shifts) THEN "ValueError"
    ELSE IF \E i \in DOMAIN constraints_of(sp) :
               ~Has(constraints_of(sp)[i], "kind")
               \/ constraints_of(sp)[i].kind \notin ALLOWED_KINDS
    THEN "ValueError"
    ELSE CompileModel(CompileContext(sp)).err

\* lines 901-939 for the assignment a of the model m
Materialized(cx, m, a) ==
    IF "OFF" \in ToSet(cx.sites) /\ cx.days # <<>> /\ cx.work_shifts # <<>>
    THEN [raised |-> "TypeError"]
    ELSE IF \E s \in ToSet(cx.work_shifts) : s \notin DOMAIN cx.shift_defs
    THEN [raised |-> "KeyError"]
    ELSE [status |-> "ok",
          objective |-> ObjectiveValue(m, a),
          schedule |-> ScheduleOf(cx, a),
          metrics |-> MetricsOf(cx, a)]

\* lines 585-939: the exception raised while the model is built; or
\* {status: no_solution}, which every model can end in (UNKNOWN); or the
\* record made of an assignment the solver can hold (FEASIBLE: any feasible
\* assignment), or the exception raised while it is made
CallOutcomes(sp) ==
    IF CallRaises(sp) # NoErr THEN {[raised |-> CallRaises(sp)]}
    ELSE LET m == ModelOf(CompileContext(sp), CompileModel(CompileContext(sp)))
         IN  {[status |-> "no_solution"]}
             \cup {Materialized(CompileContext(SpecAfterDefaultOFF(sp)), m, a) :
                     a \in FeasibleSet(m)}

----------------------------------------------------------------------------
(* The job store with several jobs: POST /jobs, one run_job thread per     *)
(* job, GET /jobs/{job_id} and GET /jobs/{job_id}/result, interleaved.     *)
(* Under SpecStore the variables spec, pc and result hold one value per    *)
(* request: spec[j] is the spec posted, pc[j] the position of the request  *)
(* and of its thread, result[j] what compile_and_solve returned or the     *)
(* exception run_job handles; http is the latest response to a GET.  A     *)
(* column that is NULL is a key the row does not have.  A call of          *)
(* db_update_status commits, or raises and leaves the table as it was.     *)

\* uuid4 gives every request that inserts a job an id of its own
JobIds == {"J1", "J2"}

\* a spec that compiles and has one feasible assignment, a spec that
\* validate_spec accepts and whose metrics raise KeyError, and a spec that
\* validate_spec refuses
StoreSpecs ==
    {BaseSpec([employees |-> <<"P1">>, days |-> <<"D1">>, shifts |-> <<"OFF", "M">>],
              FullDefs(<<"OFF", "M">>))
        @@ [demand |-> <<[day |-> "D1", shift |-> "M", eq |-> 1]>>,
            constraints |-> <<ExactlyOneAll>>],
     [sets |-> [employees |-> <<"P1">>, days |-> <<"D1">>, shifts |-> <<"OFF", "M">>],
      employees |-> EmployeesDict([employees |-> <<"P1">>])],
     BaseSpec([employees |-> <<"P1">>, days |-> <<"D1">>, shifts |-> <<"OFF", "M">>],
              FullDefs(<<"OFF", "M">>))
        @@ [demand |-> <<[day |-> "D9", shift |-> "M", eq |-> 1]>>]}

\* what compile_and_solve can return or raise for each of these specs
StoreOutcomes == [sp \in StoreSpecs |-> CallOutcomes(sp)]

\* the exception of a failed statement or commit
DatabaseError == [raised |-> "OperationalError"]

InitStore ==
    /\ spec \in [JobIds -> StoreSpecs]
    /\ pc = [j \in JobIds |-> "request"]
    /\ result = [j \in JobIds |-> NoResult]
    /\ model = NoModel
    /\ status = "none"
    /\ sol = NoSol
    /\ solver_jobs = NoJobs
    /\ http = NoResponse

\* lines 961-977 for the request j
CreateJob(j) ==
    /\ pc[j] = "request"
    /\ IF Has(CreateJobResponse(validate_spec(spec[j])), "job_id")
       THEN /\ solver_jobs' = db_insert_job(solver_jobs, j, spec[j])
            /\ pc' = [pc EXCEPT ![j] = "queued"]
       ELSE /\ UNCHANGED solver_jobs
            /\ pc' = [pc EXCEPT ![j] = "rejected"]
    /\ UNCHANGED <<spec, model, status, sol, result, http>>

\* line 130: db_update_status(job_id, "running", ...) commits, or raises and
\* run_job goes to its except clause
RunJobRunning(j) ==
    /\ pc[j] = "queued"
    /\ \/ /\ solver_jobs' = db_update_status(solver_jobs, j, "running", [started_at |-> "utcnow"])
          /\ pc' = [pc EXCEPT ![j] = "call"]
          /\ UNCHANGED result
       \/ /\ UNCHANGED solver_jobs
          /\ pc' = [pc EXCEPT ![j] = "except"]
          /\ result' = [result EXCEPT ![j] = DatabaseError]
    /\ UNCHANGED <<spec, model, status, sol, http>>

\* line 132: compile_and_solve returns a record or raises
RunJobSolves(j) ==
    /\ pc[j] = "call"
    /\ \E o \in StoreOutcomes[spec[j]] :
          /\ result' = [result EXCEPT ![j] = o]
          /\ pc' = [pc EXCEPT ![j] = IF Has(o, "raised") THEN "except" ELSE "returned"]
    /\ UNCHANGED <<spec, model, status, sol, solver_jobs, http>>

\* lines 133-137: the update to failed (no_solution) or to done commits, or
\* raises and run_job goes to its except clause
RunJobRecords(j) ==
    /\ pc[j] = "returned"
    /\ \/ /\ solver_jobs' = db_update_status(solver_jobs, j, JobOutcome(result[j]).status,
                                             JobOutcome(result[j]).given)
          /\ pc' = [pc EXCEPT ![j] = "finished"]
          /\ UNCHANGED result
       \/ /\ UNCHANGED solver_jobs
          /\ pc' = [pc EXCEPT ![j] = "except"]
          /\ result' = [result EXCEPT ![j] = DatabaseError]
    /\ UNCHANGED <<spec, model, status, sol, http>>

\* lines 139-140: the update to failed with error = str(e) commits, or raises
\* and the exception ends the thread
RunJobExcept(j) ==
    /\ pc[j] = "except"
    /\ \/ /\ solver_jobs' = db_update_status(solver_jobs, j, JobOutcome(result[j]).status,
                                             JobOutcome(result[j]).given)
          /\ pc' = [pc EXCEPT ![j] = "finished"]
       \/ /\ UNCHANGED solver_jobs
          /\ pc' = [pc EXCEPT ![j] = "died"]
    /\ UNCHANGED <<spec, model, status, sol, result, http>>

\* row.get(col): None for a NULL column
Column(row, col) == IF Has(row, col) THEN row[col] ELSE "None"

NotFound == [status_code |-> 404, detail |-> "Job not found"]

\* lines 980-989 (created_at, a default of the table, is left out)
GetJobResponse(jobs, id) ==
    IF id \notin DOMAIN jobs THEN NotFound
    ELSE [job_id |-> id, status |-> jobs[id].status,
          started_at |-> Column(jobs[id], "started_at"),
          finished_at |-> Column(jobs[id], "finished_at"),
          error |-> Column(jobs[id], "error")]

\* get_job_result that returns the result column whatever the status
GetJobResultResponseAnyStatus(jobs, id) ==
    IF id \notin DOMAIN jobs THEN NotFound
    ELSE [job_id |-> id, status |-> jobs[id].status, result |-> Column(jobs[id], "result_json")]

\* lines 991-1000
GetJobResultResponse(jobs, id) ==
    IF id \notin DOMAIN jobs THEN NotFound
    ELSE IF jobs[id].status # "done"
    THEN [job_id |-> id, status |-> jobs[id].status, error |-> Column(jobs[id], "error")]
    ELSE [job_id |-> id, status |-> "done", result |-> Column(jobs[id], "result_json")]

get_job(id) ==
    /\ http' = [request |-> "get_job", response |-> GetJobResponse(solver_jobs, id)]
    /\ UNCHANGED <<spec, pc, model, status, sol, result, solver_jobs>>

get_job_result(id) ==
    /\ http' = [request |-> "get_job_result", response |-> GetJobResultResponse(solver_jobs, id)]
    /\ UNCHANGED <<spec, pc, model, status, sol, result, solver_jobs>>

\* the steps of the thread of job j
RunJob(j) == RunJobRunning(j) \/ RunJobSolves(j) \/ RunJobRecords(j) \/ RunJobExcept(j)

NextStore ==
    \E j \in JobIds : CreateJob(j) \/ RunJob(j) \/ get_job(j) \/ get_job_result(j)

SpecStore == InitStore /\ [][NextStore]_vars

\* a started thread keeps running until it ends
SpecStoreFair == SpecStore /\ \A j \in JobIds : WF_vars(RunJob(j))

\* the status of a row before and after a step
Moves(j, from, to) == solver_jobs[j].status = from /\ solver_jobs'[j].status = to

\* a row is inserted as queued
InsertedQueued == \A j \in DOMAIN solver_jobs' \ DOMAIN solver_jobs : solver_jobs'[j].status = "queued"

\* done and failed are never overwritten, and a step of one job leaves the
\* rows of the other jobs as they are
TerminalAndOwnRow(j) ==
    /\ j \in DOMAIN solver_jobs'
    /\ solver_jobs[j].status \in {"done", "failed"} => solver_jobs'[j] = solver_jobs[j]
    /\ (\E k \in JobIds \ {j} : pc'[k] # pc[k]) => solver_jobs'[j] = solver_jobs[j]

\* C23 as stated: under any interleaving of the run_job threads and the
\* polling requests, the stored status of a job only moves along queued ->
\* running -> done or queued -> running -> failed; done and failed are
\* never overwritten, and an update of one job never changes the row of
\* another job
C23_StatusPath ==
    [][/\ InsertedQueued
       /\ \A j \in DOMAIN solver_jobs :
            /\ TerminalAndOwnRow(j)
            /\ \/ solver_jobs'[j].status = solver_jobs[j].status
               \/ Moves(j, "queued", "running")
               \/ Moves(j, "running", "done")
               \/ Moves(j, "running", "failed")]_vars

\* C23: the stored status of a job only moves forward, along queued ->
\* running -> done, queued -> running -> failed, or queued -> failed (the
\* update to running raised and the except clause recorded the failure);
\* done and failed are never overwritten, no job goes back to queued or
\* running, and an update of one job never changes the row of another job
C23_StatusMovesForward ==
    [][/\ InsertedQueued
       /\ \A j \in DOMAIN solver_jobs :
            /\ TerminalAndOwnRow(j)
            /\ \/ solver_jobs'[j].status = solver_jobs[j].status
               \/ Moves(j, "queued", "running")
               \/ Moves(j, "running", "done")
               \/ Moves(j, "running", "failed")
               \/ Moves(j, "queued", "failed")]_vars

\* one job failed without ever running, after the other job was done
C23_Witness ==
    /\ DOMAIN solver_jobs = JobIds
    /\ solver_jobs["J1"].status = "done"
    /\ solver_jobs["J2"].status = "failed"
    /\ ~Has(solver_jobs["J2"], "started_at")
    /\ pc["J1"] = "finished"

\* C24: every job inserted by create_job eventually reaches a terminal
\* status, done or failed, whichever step of run_job fails (its thread keeps
\* taking steps, and compile_and_solve returns or raises)
C24_EveryJobEnds ==
    \A j \in JobIds :
        [](j \in DOMAIN solver_jobs
              => <>(j \in DOMAIN solver_jobs /\ solver_jobs[j].status \in {"done", "failed"}))

\* the rows of the store: done goes with a stored result of status ok,
\* failed with an error and no stored result
RowsConsistent ==
    \A j \in DOMAIN solver_jobs :
        /\ solver_jobs[j].status = "done"
              <=> (Has(solver_jobs[j], "result_json") /\ solver_jobs[j].result_json.status = "ok")
        /\ solver_jobs[j].status = "failed"
              => (Has(solver_jobs[j], "error") /\ ~Has(solver_jobs[j], "result_json"))

\* the latest answer of get_job_result: a result payload only with status
\* done, and otherwise only job_id, status and error
ResultAnswerConsistent ==
    (Has(http, "request") /\ http.request = "get_job_result"
        /\ ~Has(http.response, "status_code")) =>
        IF http.response.status = "done"
        THEN /\ DOMAIN http.response = {"job_id", "status", "result"}
             /\ http.response.result.status = "ok"
        ELSE DOMAIN http.response = {"job_id", "status", "error"}

\* the answer of get_job_result is made of the row as it is stored
ResultAnswerOfRow ==
    \A j \in JobIds :
        (http'.request = "get_job_result" /\ http'.response = GetJobResultResponse(solver_jobs, j)
            /\ j \in DOMAIN solver_jobs) =>
            /\ http'.response.status = solver_jobs[j].status
            /\ solver_jobs[j].status = "done" => http'.response.result = solver_jobs[j].result_json

\* C25: in every reachable state of the job store a job has status done if
\* and only if a result record with status ok is stored for it, and a job
\* with status failed has an error and no stored result; get_job_result
\* returns a result payload only for a job whose status is done, and only
\* status and error for every other status
C25_StoreConsistent ==
    /\ [](RowsConsistent /\ ResultAnswerConsistent)
    /\ [][http' # http => ResultAnswerOfRow]_vars

\* a done job was polled for its result while the other job had failed
C25_Witness ==
    /\ Has(http, "request") /\ http.request = "get_job_result"
    /\ Has(http.response, "result")
    /\ http.response.job_id = "J1"
    /\ solver_jobs["J1"].status = "done"
    /\ "J2" \in DOMAIN solver_jobs /\ solver_jobs["J2"].status = "failed"
    /\ solver_jobs["J2"].error = "No feasible solution"

----------------------------------------------------------------------------
(* Horizons of three days: streaks, blocks and windows inside the horizon.  *)

HorizonDays == 3
HorizonVars == 6

\* one or two employees, one to HorizonDays days, one or two work shifts, at
\* most HorizonVars variables x and off
HorizonSets ==
    {[employees |-> Prefix(EmployeeIds, q[1]), days |-> Prefix(DayIds, q[2]),
      shifts |-> <<"OFF">> \o Prefix(WorkShiftIds, q[3])] :
        q \in {r \in (1..2) \X (1..HorizonDays) \X (1..2) :
                r[1] * r[2] * (r[3] + 1) <= HorizonVars}}

HorizonData(kind) ==
    IF kind = "min_consecutive_days_off" THEN {[min |-> k] : k \in 1..HorizonDays}
    ELSE IF kind = "max_consecutive_work_days" THEN {[max |-> m] : m \in 0..HorizonDays}
    ELSE {[window_days |-> w, max |-> 1] @@ sh :
            w \in 1..HorizonDays,
            sh \in {EmptyDict, [shifts |-> <<"M">>], [counted_shifts |-> <<"M">>]}}

HorizonKinds ==
    {"min_consecutive_days_off", "max_consecutive_work_days", "max_shifts_in_window"}

\* one hard constraint on everyone or on P1, with and without one assignment
\* or OFF per day
HorizonFamily ==
    {BaseSpec(sets, FullDefs(sets.shifts))
        @@ [constraints |-> <<Constraint("k", "hard", kind, sc, [data |-> data])>> \o one] :
        sets \in HorizonSets, kind \in HorizonKinds,
        sc \in {EmptyDict, [scope |-> [employees |-> <<"P1">>]]},
        data \in UNION {HorizonData(k) : k \in HorizonKinds},
        one \in {<<>>, <<Constraint("one", "hard", "exactly_one_assignment_per_day",
                                    EmptyDict, EmptyDict)>>}}

InitHorizon ==
    /\ spec \in {sp \in HorizonFamily :
                    sp.constraints[1].data \in HorizonData(sp.constraints[1].kind)}
    /\ pc = "call"
    /\ model = NoModel
    /\ status = "none"
    /\ sol = NoSol
    /\ result = NoResult
    /\ solver_jobs = NoJobs
    /\ http = NoResponse

NextHorizon == Compile \/ Solve \/ Return

SpecHorizon == InitHorizon /\ [][NextHorizon]_vars

----------------------------------------------------------------------------
(* min_consecutive_days_off in the returned schedule.                       *)

HorizonLen == Len(spec.sets.days)

\* the employee is listed under OFF on day index d of the returned schedule
OffOn(e, d) == e \in ToSet(result.schedule[spec.sets.days[d + 1]]["OFF"])

\* a streak of OFF days begins at day index d
StreakStarts(e, d) == OffOn(e, d) /\ (d = 0 \/ ~OffOn(e, d - 1))

\* the last day index of the OFF streak that begins at d
StreakEnd(e, d) ==
    CHOOSE f \in d..(HorizonLen - 1) :
        /\ \A j \in d..f : OffOn(e, j)
        /\ f = HorizonLen - 1 \/ ~OffOn(e, f + 1)

ReturnedOkFor(kind) ==
    /\ pc = "returned"
    /\ result.status = "ok"
    /\ OnlyConstraint.kind = kind

\* C26: in a schedule returned with status ok under a min_consecutive_days_off
\* constraint with min = k, every OFF streak of a scoped employee that begins
\* at day d covers every day of [d, min(d + k, |days|)); so a streak that ends
\* before the last day has at least k days
C26_MinDaysOff ==
    ReturnedOkFor("min_consecutive_days_off") =>
        \A e \in ToSet(select_employees_by_scope(spec, scope_of(OnlyConstraint))) :
            \A d \in 0..(HorizonLen - 1) :
                StreakStarts(e, d) =>
                    /\ \A j \in d..(Min2(d + data_of(OnlyConstraint).min, HorizonLen) - 1) :
                            OffOn(e, j)
                    /\ StreakEnd(e, d) < HorizonLen - 1 =>
                            StreakEnd(e, d) - d + 1 >= data_of(OnlyConstraint).min

\* P1 works the first of three days and is off the other two: a streak
\* shorter than min = 3 that the end of the horizon cuts
C26_Witness ==
    /\ ReturnedOkFor("min_consecutive_days_off")
    /\ data_of(OnlyConstraint).min = 3
    /\ HorizonLen = 3
    /\ Len(spec.constraints) = 2
    /\ ~OffOn("P1", 0) /\ OffOn("P1", 1) /\ OffOn("P1", 2)

----------------------------------------------------------------------------
(* max_consecutive_work_days: its rows and the schedules it allows.         *)

ScopedEmployees == ToSet(select_employees_by_scope(spec, scope_of(OnlyConstraint)))

\* the rows that the first constraint of the spec adds to the model
FirstConstraintRows == CompileConstraint(CompileContext(spec), OnlyConstraint, 1).rows

\* the first day indices of the blocks of L consecutive days inside the horizon
BlockStarts(L) == {t \in 0..(HorizonLen - 1) : t + L <= HorizonLen}

\* the employee is listed under a work shift on day index d of the returned schedule
WorksOn(e, d) ==
    \E k \in DOMAIN result.schedule[spec.sets.days[d + 1]] \ {"OFF"} :
        \E s \in DOMAIN result.schedule[spec.sets.days[d + 1]][k] :
            e \in ToSet(result.schedule[spec.sets.days[d + 1]][k][s])

\* the number of work assignments of the employee on day index d in assignment a
AssignedOn(a, e, d) == Value(a, works_day(CompileContext(spec), e, d))

\* no scoped employee has two assignments on a day, or L working days in a row
AtMostOnePerDay(a) ==
    \A e \in ScopedEmployees : \A d \in 0..(HorizonLen - 1) : AssignedOn(a, e, d) <= 1
NoRunOf(a, L) ==
    \A e \in ScopedEmployees : \A t \in BlockStarts(L) :
        \E d \in t..(t + L - 1) : AssignedOn(a, e, d) = 0

MaxConsecutive(at) == pc = at /\ OnlyConstraint.kind = "max_consecutive_work_days"

\* C27: the rows of a max_consecutive_work_days constraint with bound max are
\* one row sum(works_day) <= max per scoped employee and block of max + 1
\* consecutive days inside the horizon; no scoped employee works max + 1 days
\* in a row in a returned schedule; and an assignment with at most one
\* assignment per day and no run of max + 1 working days is admitted
C27_MaxConsecutive ==
    /\ MaxConsecutive("built") =>
        /\ ToSet(FirstConstraintRows)
              = {Row(BlockSum(CompileContext(spec), e, t, data_of(OnlyConstraint).max + 1),
                     "<=", data_of(OnlyConstraint).max) :
                    e \in ScopedEmployees, t \in BlockStarts(data_of(OnlyConstraint).max + 1)}
        /\ Len(FirstConstraintRows)
              = Cardinality(ScopedEmployees \X BlockStarts(data_of(OnlyConstraint).max + 1))
        /\ \A a \in DecisionsWith(Tail(spec.constraints)) :
              (AtMostOnePerDay(a) /\ NoRunOf(a, data_of(OnlyConstraint).max + 1))
                  => a \in FeasibleSet(model)
    /\ ReturnedOkFor("max_consecutive_work_days") =>
        \A e \in ScopedEmployees : \A t \in BlockStarts(data_of(OnlyConstraint).max + 1) :
            \E d \in t..(t + data_of(OnlyConstraint).max) : ~WorksOn(e, d)

\* max = 1 on three days: P1 works the first and the last day
C27_Witness ==
    /\ ReturnedOkFor("max_consecutive_work_days")
    /\ data_of(OnlyConstraint).max = 1
    /\ HorizonLen = 3
    /\ Len(FirstConstraintRows) = 2
    /\ WorksOn("P1", 0) /\ ~WorksOn("P1", 1) /\ WorksOn("P1", 2)

----------------------------------------------------------------------------
(* max_shifts_in_window: the shifts that count, and the bound per window.   *)

\* the work shifts listed under the key of the constraint's data, or every
\* work shift when the data has no such key
CountedUnder(key) ==
    SelectSeq(IF Has(data_of(OnlyConstraint), key) THEN data_of(OnlyConstraint)[key]
              ELSE CompileContext(spec).work_shifts,
              LAMBDA s : s \in ToSet(CompileContext(spec).work_shifts))

HorizonWindow(t) == Window(CompileContext(spec), t, data_of(OnlyConstraint).window_days)

\* the assignments of the employee to the counted shifts on the days of the
\* window in the returned schedule
CountedAssignments(e, window, counted) ==
    {q \in ToSet(window) \X ToSet(counted) \X ToSet(CompileContext(spec).sites) :
        e \in ToSet(result.schedule[spec.sets.days[q[1] + 1]][q[3]][q[2]])}

\* the rows bound the assignments to the shifts counted under the key, window
\* by window, and so does every returned schedule
MaxShiftsBound(key) ==
    /\ (pc = "built" /\ OnlyConstraint.kind = "max_shifts_in_window") =>
            ToSet(FirstConstraintRows)
                = {Row(WindowSum(CompileContext(spec), e, HorizonWindow(t), CountedUnder(key)),
                       "<=", data_of(OnlyConstraint).max) :
                      e \in ScopedEmployees, t \in 0..(HorizonLen - 1)}
    /\ ReturnedOkFor("max_shifts_in_window") =>
            \A e \in ScopedEmployees : \A t \in 0..(HorizonLen - 1) :
                Cardinality(CountedAssignments(e, HorizonWindow(t), CountedUnder(key)))
                    <= data_of(OnlyConstraint).max

\* C28 as stated: the counted shifts of a max_shifts_in_window constraint are
\* those of data.counted_shifts, or all work shifts without that key, and in
\* every returned schedule each scoped employee has at most max assignments
\* to them in every window [t, min(t + window_days, |days|))
C28_CountedShiftsKey == MaxShiftsBound("counted_shifts")

\* C28: the counted shifts of a max_shifts_in_window constraint are the work
\* shifts of data.shifts, or all work shifts without that key, and in every
\* returned schedule each scoped employee has at most max assignments to them
\* in every window [t, min(t + window_days, |days|))
C28_ShiftsKey == MaxShiftsBound("shifts")

\* data.shifts = [M], max = 1, window of two days: P1 has one M, and N on
\* both days, which is not counted
C28_Witness ==
    /\ ReturnedOkFor("max_shifts_in_window")
    /\ Has(data_of(OnlyConstraint), "shifts")
    /\ spec.sets.shifts = <<"OFF", "M", "N">>
    /\ HorizonLen = 2
    /\ data_of(OnlyConstraint).window_days = 2
    /\ Cardinality(CountedAssignments("P1", HorizonWindow(0), <<"M">>)) = 1
    /\ Cardinality(CountedAssignments("P1", HorizonWindow(0), <<"N">>)) = 2

----------------------------------------------------------------------------
(* Demand and forbidden pairs that name OFF or another non-work shift.      *)

\* shifts OFF, M, N, with N a work shift or a break
NonWorkBases ==
    {BaseSpec(sets, defs) :
        sets \in {s \in SetsChoices : s.shifts = <<"OFF", "M", "N">> /\ ~Has(s, "sites")},
        defs \in {FullDefs(<<"OFF", "M", "N">>),
                  [FullDefs(<<"OFF", "M", "N">>) EXCEPT !["N"] = Break]}}

NonWorkDemands ==
    {EmptyDict} \cup {[demand |-> <<[day |-> "D1", shift |-> s, eq |-> 1]>>] : s \in {"M", "N", "OFF"}}

NonWorkPairs ==
    {<<[prev_shift |-> "M", next_shift |-> "M"]>>,
     <<[prev_shift |-> "M", next_shift |-> "M"], [prev_shift |-> "M", next_shift |-> "OFF"]>>,
     <<[prev_shift |-> "OFF", next_shift |-> "M"]>>,
     <<[prev_shift |-> "N", next_shift |-> "M"]>>}

\* no constraint, or forbid_shift_sequences on everyone, on P1 or on nobody
NonWorkConstraints ==
    {EmptyDict}
    \cup {[constraints |->
            <<Constraint("seq", "hard", "forbid_shift_sequences", sc,
                         [data |-> [forbidden_pairs |-> fp]])>>] :
            sc \in {EmptyDict, [scope |-> [employees |-> <<"P1">>]],
                    [scope |-> [employees |-> <<>>]]},
            fp \in NonWorkPairs}

NonWorkFamily == {b @@ dem @@ cs : b \in NonWorkBases, dem \in NonWorkDemands, cs \in NonWorkConstraints}

InitNonWork ==
    /\ spec \in NonWorkFamily
    /\ pc = "call"
    /\ model = NoModel
    /\ status = "none"
    /\ sol = NoSol
    /\ result = NoResult
    /\ solver_jobs = NoJobs
    /\ http = NoResponse

NextNonWork == Compile \/ Solve \/ Return

SpecNonWork == InitNonWork /\ [][NextNonWork]_vars

NonWorkShifts == ToSet(spec.sets.shifts) \ ToSet(CompileContext(spec).work_shifts)

DemandNamesNonWork ==
    \E i \in DOMAIN demand_of(spec) : demand_of(spec)[i].shift \in NonWorkShifts

PairNamesNonWork ==
    \E i \in DOMAIN constraints_of(spec) :
        /\ constraints_of(spec)[i].kind = "forbid_shift_sequences"
        /\ \E p \in DOMAIN data_of(constraints_of(spec)[i]).forbidden_pairs :
              \/ data_of(constraints_of(spec)[i]).forbidden_pairs[p].prev_shift \in NonWorkShifts
              \/ data_of(constraints_of(spec)[i]).forbidden_pairs[p].next_shift \in NonWorkShifts

\* the rows of the model are sums of x of work shifts alone
RowsOfWorkShifts ==
    \A i \in DOMAIN model.rows : \A t \in DOMAIN model.rows[i].terms :
        /\ model.rows[i].terms[t][2][1] = "x"
        /\ model.rows[i].terms[t][2][4] \notin NonWorkShifts

\* C29: compile_and_solve raises ValueError, and builds no model, when a
\* demand entry or a pair of a forbid_shift_sequences constraint names OFF or
\* another non-work shift; no row of a model that is solved is about a
\* non-work shift
C29_NonWorkRefused ==
    /\ (pc # "call" /\ (DemandNamesNonWork \/ PairNamesNonWork)) =>
            pc = "raised" /\ result = [raised |-> "ValueError"]
    /\ pc \in {"built", "solved"} => RowsOfWorkShifts

----------------------------------------------------------------------------
(* fair_distribution: its windows and what it adds to the objective.        *)

\* counted shifts M or M and N, the whole horizon or rolling windows, the
\* target the rounded mean or a number
FairData ==
    {[shifts |-> sh] @@ w @@ t :
        sh \in {<<"M">>, <<"M", "N">>},
        w \in {EmptyDict, [window_days |-> 1]},
        t \in {EmptyDict, [target |-> 1], [target |-> 3]}}

\* one soft fair_distribution constraint of weight 5, on everyone or on P1,
\* with and without a demand for M on D1 and one assignment or OFF per day
FairFamily ==
    {BaseSpec(sets, FullDefs(sets.shifts)) @@ dem
        @@ [constraints |->
              <<Constraint("fair", "soft", "fair_distribution", sc, [data |-> data])
                    @@ [penalty |-> [weight |-> 5]]>> \o one] :
        sets \in KindSets("fair_distribution"),
        dem \in {EmptyDict, [demand |-> <<[day |-> "D1", shift |-> "M", eq |-> 1]>>]},
        sc \in {EmptyDict, [scope |-> [employees |-> <<"P1">>]]},
        data \in FairData,
        one \in {<<>>, <<ExactlyOneAll>>}}

InitFair ==
    /\ spec \in FairFamily
    /\ pc = "call"
    /\ model = NoModel
    /\ status = "none"
    /\ sol = NoSol
    /\ result = NoResult
    /\ solver_jobs = NoJobs
    /\ http = NoResponse

NextFair == Compile \/ Solve \/ Return

SpecFair == InitFair /\ [][NextFair]_vars

FairCompiled(at) ==
    /\ pc = at
    /\ OnlyConstraint.kind = "fair_distribution"
    /\ weight_of(OnlyConstraint) > 0

\* the windows as sets of day indices: the whole horizon when window_days >=
\* |days| (or is absent), one window per start index otherwise
FairWindowDays ==
    IF ~Has(data_of(OnlyConstraint), "window_days")
          \/ data_of(OnlyConstraint).window_days >= HorizonLen
    THEN <<0..(HorizonLen - 1)>>
    ELSE [i \in 1..HorizonLen |->
            (i - 1)..(Min2(i - 1 + data_of(OnlyConstraint).window_days, HorizonLen) - 1)]

\* the employee's number of counted-shift assignments in window w under a
CountIn(a, e, w) ==
    Cardinality({q \in FairWindowDays[w] \X ToSet(CountedUnder("shifts"))
                        \X ToSet(CompileContext(spec).sites) :
                    a[x(e, q[1], q[2], q[3])] = 1})

FairEmployees == select_employees_by_scope(spec, scope_of(OnlyConstraint))

TargetOfFair ==
    FairTarget(CompileContext(spec), OnlyConstraint, FairEmployees, CountedUnder("shifts"))

Distance(a, b) == IF a >= b THEN a - b ELSE b - a

\* the sum over the scoped employees and the windows of weight * |cnt - target|
DeviationCost(a) ==
    SumSeq([i \in 1..Len(FairEmployees) |->
        SumSeq([w \in 1..Len(FairWindowDays) |->
            weight_of(OnlyConstraint) * Distance(CountIn(a, FairEmployees[i], w), TargetOfFair)])])

\* the days of the x terms of the row that defines cnt for employee e and window w
CntRowDays(e, w) ==
    UNION {{FirstConstraintRows[i].terms[t][2][3] :
                t \in {u \in DOMAIN FirstConstraintRows[i].terms :
                            FirstConstraintRows[i].terms[u][2][1] = "x"}} :
            i \in {j \in DOMAIN FirstConstraintRows :
                        FirstConstraintRows[j].terms[1][2] = cnt(1, e, w)
                        /\ FirstConstraintRows[j].op = "=="}}

Extends(a, d) == \A v \in DOMAIN d : a[v] = d[v]

\* C30: a fair_distribution constraint of weight > 0 has one window over the
\* horizon when window_days >= |days| and one per start index otherwise; every
\* assignment of x that the other constraints allow stays feasible and costs,
\* at its best, weight * |cnt - target| per scoped employee and window; and
\* that is the objective of an optimally solved model
C30_FairDeviation ==
    /\ FairCompiled("built") =>
        /\ Len(FirstConstraintRows) = 3 * Len(FairEmployees) * Len(FairWindowDays)
        /\ \A i \in DOMAIN FairEmployees : \A w \in DOMAIN FairWindowDays :
                CntRowDays(FairEmployees[i], w) = FairWindowDays[w]
        /\ LET F == FeasibleSet(model)
           IN  /\ \A a \in F : ObjectiveValue(model, a) >= DeviationCost(a)
               /\ \A d \in DecisionsWith(Tail(spec.constraints)) :
                    \E a \in F : Extends(a, d) /\ ObjectiveValue(model, a) = DeviationCost(d)
    /\ (FairCompiled("solved") /\ status = "OPTIMAL") =>
            ObjectiveValue(model, sol) = DeviationCost(sol)

====
